---- MODULE Spec2Model ----
(***************************************************************************)
(* Model of callpyback.basics: the CallbackList registry                   *)
(* (basics/callbacklist.py) bound to one scheduling Policy                 *)
(* (basics/scheduling.py: SinglePolicy, ThreadingPolicy, ExceptionThread). *)
(* One caller thread issues the registry operations; under ThreadingPolicy *)
(* every started ExceptionThread is a process of its own.                  *)
(* SpecReduction models the Reduction aggregator (basics/reduction.py),    *)
(* SpecPolicies the construction of the policy object, SpecReentrant       *)
(* callbacks that call run_callbacks on their own registry, and            *)
(* SpecHandler the CallbackHandler (basics/callbackhandler.py), whose       *)
(* registries share one policy object and which two threads may call.      *)
(* SpecReduce applies reduce and reduce_return to recorded return values.  *)
(* SpecDecorator models the CallPyBack decorator (callpyback.py,           *)
(* mixins/base.py) and its four lifecycle registries, SpecEventQueue the   *)
(* EventQueue (basics/eventqueue.py), and SpecMonitor / SpecMonitorFair    *)
(* the Monitor, HoareMonitor and MesaMonitor wrappers (tools/monitor.py)   *)
(* called by three threads.  SpecCompose models Composition                *)
(* (tools/compose.py), SpecLocking / SpecLockingFair the registry lock     *)
(* with callbacks that add and remove callbacks from their own threads,    *)
(* SpecEventDispatcher the EventDispatcher (basics/eventdispatcher.py),    *)
(* and SpecFair is Spec with the threads and the joining caller scheduled. *)
(***************************************************************************)
EXTENDS Integers, Sequences, FiniteSets, TLC

\* ---------------------------------------------------------------- bounds
\* number of run_callbacks calls (accepted or rejected), or of execute calls
\* on the handler, in one behaviour
MaxRuns == 2
\* number of profile events handed to Reduction.tracer in one behaviour
MaxEvents == 5
\* number of function names with a recorded return value at the start
MaxRecorded == 3
\* number of calls of the decorated function in one behaviour
MaxCalls == 2
\* number of events in the queue of the EventQueue
MaxQueue == 3
\* number of calls made on the monitor (wrapped functions, signal, wait)
MaxMonitorCalls == 4
\* number of functions passed to the constructor of a Composition
MaxFuncs == 3
\* the accepted run_callbacks calls on the registry whose lock is modelled
MaxBatches == 2

\* ------------------------------------------------------------- universe
\* Optional values: None is the empty tuple, Some(v) the 1-tuple
None == <<>>
Some(v) == <<v>>

\* the keyword arguments a caller passes to run_callbacks(**kwds)
KwargsSet == { ("x" :> 1),
               ("x" :> 2 @@ "y" :> 1 @@ "z" :> 3) }

\* the values handed to add_callback: plain functions, an async function and
\* a value that is not callable
Functions == {"fx", "fxy", "fz"}
Candidates == Functions \cup {"coro", "notcallable"}

\* callable(callback)
callable(c) == c # "notcallable"

\* inspect.iscoroutinefunction(callback)
iscoroutinefunction(c) == c = "coro"

\* set(inspect.signature(callback).parameters)
parameters(c) ==
    CASE c = "fx" -> {"x"}
      [] c = "fxy" -> {"x", "y"}
      [] c = "fz" -> {"z"}
      [] c = "coro" -> {"x"}
      [] OTHER -> {}

\* ---- Reduction: classes, traced names, values
ReductionClasses == {"Sum", "Mean", "Max", "Min", "List", "Dict"}
\* frame.f_code.co_name of the frames the tracer sees
CallNames == {"f", "g"}
\* the event argument of sys.setprofile callbacks
Events == {"call", "return", "c_call"}
\* arg of a return event
ReturnValues == {1, 2}
\* frame.f_locals of a returning frame
LocalsSet == { ("v" :> 1), ("v" :> 2 @@ "w" :> 1) }
\* the lists handed to reduce directly
ValueLists == {<<>>, <<1>>, <<2, 1>>, <<1, 2, 2>>}

\* results of a reduction: math.nan, a number, a quotient sum / len, a list
\* copy, a dict copy
NaN == [kind |-> "nan"]
Num(n) == [kind |-> "num", val |-> n]
Quot(n, d) == [kind |-> "quot", num |-> n, den |-> d]
ListOf(vs) == [kind |-> "list", val |-> vs]
DictOf(d) == [kind |-> "dict", val |-> d]

\* kinds of exception a callback body may raise; "ok" is a normal return
\* the handler: action names, calling threads, delegated functions, the
\* keyword arguments of execute
ActionNames == {"a", "b"}
Callers == {1, 2}
\* the thread that builds the handler: declares actions, delegates functions
Owner == 1
HandlerFunctions == {"fx", "fxy"}
HandlerKwargs == { ("x" :> 1) }
\* delegate_function(**kwargs): the items of kwargs in order
DelegateKwargs ==
    { << [action |-> "a", func |-> "fx"] >>,
      << [action |-> "a", func |-> "fxy"] >>,
      << [action |-> "b", func |-> "fxy"] >>,
      << [action |-> "a", func |-> "fx"], [action |-> "b", func |-> "fxy"] >> }

Kinds == {"A", "B", "X"}
Outcomes == {"ok"} \cup Kinds

\* ---------------------------------------------------------------- state
VARIABLES
    policy,             \* class of self.scheduler: "Single" or "Threading"
    exceptions,         \* Policy.exceptions: None or Some(set of kinds)
    tracer,             \* Policy.tracer: "None" or "tracer"
    profile,            \* the interpreter's profile hook (sys/threading.setprofile)
    callbacks,          \* CallbackList.callbacks
    allowed_parameters, \* CallbackList.allowed_parameters
    ready,              \* CallbackList._ready
    units,              \* SinglePolicy.callbacks / ThreadingPolicy.threads
    pc,                 \* where the caller thread is: "idle", "start", "join"
    idx,                \* loop index of the caller inside _start / _join
    result,             \* how the caller's last registry call ended
    nreq,               \* history: number of run_callbacks calls made so far
    accepted,           \* history: the last run_callbacks call that found the
                        \* registry ready: its number, kwargs and callback set
    invoked             \* history: the invocations since that call, in order

    \* ---- Reduction (basics/reduction.py)
VARIABLES
    rclass,             \* the concrete Reduction class
    returnvars,         \* Reduction.returnvars, in insertion order
    localvars,          \* Reduction.localvars, in insertion order
    call_hook,          \* Reduction._call_hook
    trace_call_names,   \* Reduction._trace_call_names: None or Some(set)
    reduced,            \* the caller's last reduce / reduce_return call
    nev                 \* history: number of tracer events so far

VARIABLES
    \* ---- calls of run_callbacks made by callbacks (SinglePolicy)
    stack               \* the loops of SinglePolicy._start suspended in a callback
                        \* that called run_callbacks: [units, idx], innermost last

VARIABLES
    \* ---- CallbackHandler (basics/callbackhandler.py); its policy object is
    \* described by policy and exceptions, shared by all its registries
    delegations,        \* self.delegations: action -> [callbacks, ready]
    threads,            \* self.policy.threads: the list the last prepare made
    pool,               \* every ExceptionThread ever prepared, threads refer to it
    callers,            \* the threads that call the handler: where each one is
    nexec               \* number of execute calls so far

VARIABLES
    \* ---- CallPyBack decorator (callpyback.py, mixins/base.py)
    lists,              \* self.on_call, on_success, on_failure, on_end: the
                        \* CallbackList of each label, [callbacks, ready]
    main_pc,            \* where the thread inside CallPyBack.main is
    frame,              \* the locals of main: what func does in this call,
                        \* func_result, func_exception, the pending outcome
    trace,              \* history: what the current (or last) call of main did
    tracer_profile,     \* what set_tracer_profile installed last
    returned,           \* how the last call of the wrapper ended
    ncalls              \* number of calls of the decorated function so far

VARIABLES
    \* ---- EventQueue (basics/eventqueue.py)
    listeners,          \* self.listeners: event type -> [callbacks, ready]
    queue,              \* self.queue: the (event_type, kwargs) pairs enqueued
    waiting,            \* the local list `waiting` of process
    eq_pc,              \* where the thread inside process is
    processing,         \* history: the queue as the current process call found
                        \* it, empty outside process
    delivered           \* history: the listener invocations of that call

VARIABLES
    \* ---- Monitor, HoareMonitor (tools/monitor.py)
    mclass,             \* the class of the monitor object
    lock,               \* self._lock: 0 when free, else the thread holding it
    is_condition_met,   \* HoareMonitor._is_condition_met
    waiters,            \* the threads blocked inside self._condition.wait()
    mthreads,           \* where each thread is: [pc, func, waited]
    signalled,          \* history: a signal() call has notified the waiters
    mcalls              \* number of calls made on the monitor so far

VARIABLES
    \* ---- Composition (tools/compose.py)
    funcs,              \* self._funcs
    given,              \* history: the functions passed to the constructor
    proloque,           \* history: the function passed to add_proloque, if any
    epiloque,           \* history: the function passed to add_epiloque, if any
    called              \* the last call of the composition since it was last
                        \* extended: [via, x, out]

VARIABLES
    \* ---- a CallbackList under ThreadingPolicy with its lock
    \* (basics/callbacklist.py: self._lock), used by the caller and by the
    \* callback threads
    rl_owner,           \* the thread holding self._lock: Free, CallerThread
                        \* or CallbackThread(i)
    rl_ready,           \* self._ready
    rl_callbacks,       \* self.callbacks
    rl_threads,         \* self.scheduler.threads: target -> state of its thread
    rl_caller,          \* where the caller thread is: "idle" or "joining"
    rl_nrun             \* number of accepted run_callbacks calls so far

VARIABLES
    \* ---- EventDispatcher (basics/eventdispatcher.py)
    d_listeners,        \* self.listeners: event type -> [callbacks, ready]
    dispatched          \* the dispatch call in progress or the last one: its
                        \* type and kwargs, whether the type had a registry,
                        \* the dispatch units not invoked yet, the number of
                        \* invocations of each listener, and where the call is

composition == <<funcs, given, proloque, epiloque, called>>
locking == <<rl_owner, rl_ready, rl_callbacks, rl_threads, rl_caller, rl_nrun>>
dispatcher == <<d_listeners, dispatched>>
\* the helpers that do not use a registry through a decorator or a queue
extras == <<composition, locking, dispatcher>>
decorator == <<lists, main_pc, frame, trace, tracer_profile, returned, ncalls>>
eventqueue == <<listeners, queue, waiting, eq_pc, processing, delivered>>
monitor == <<mclass, lock, is_condition_met, waiters, mthreads, signalled, mcalls>>
\* the consumers of the registry and the synchronisation helpers
tools == <<decorator, eventqueue, monitor, extras>>

reduction == <<rclass, returnvars, localvars, call_hook, trace_call_names, reduced, nev>>
\* the state outside the registry and its policy
handler == <<delegations, threads, pool, callers, nexec>>
ext == <<reduction, stack, handler, tools>>

config == <<policy, exceptions, tracer, allowed_parameters>>
history == <<nreq, accepted, invoked>>
registry == <<policy, exceptions, tracer, profile, callbacks, allowed_parameters,
              ready, units, pc, idx, result, nreq, accepted, invoked>>
\* the registry, the aggregator and the handler
core == <<registry, reduction, stack, handler>>
vars == <<registry, ext>>

\* ------------------------------------------------------ pure functions
\* (variant: no filtering, the whole of kwargs is passed)
get_callback_kwargs_unfiltered(callback, kwargs) == kwargs

\* get_callback_kwargs: the entries of kwargs whose key is a parameter
get_callback_kwargs(callback, kwargs) ==
    [k \in {n \in DOMAIN kwargs : n \in parameters(callback)} |-> kwargs[k]]

\* (variant: the parameters are not compared with allowed_parameters)
validate_callback_parameters_any(callback) == TRUE

\* validate_callback_parameters: TRUE when it returns, FALSE when it raises
validate_callback_parameters(callback) ==
    parameters(callback) \subseteq allowed_parameters

\* (variant: the check for async functions is missing)
validate_callback_no_coroutine_check(callback) ==
    IF ~callable(callback) THEN "TypeError"
    ELSE IF ~validate_callback_parameters(callback) THEN "AssertionError"
    ELSE "ok"

\* validate_callback: "ok", or the class of the error it raises
validate_callback(callback) ==
    IF ~callable(callback) THEN "TypeError"
    ELSE IF iscoroutinefunction(callback) THEN "TypeError"
    ELSE IF ~validate_callback_parameters(callback) THEN "AssertionError"
    ELSE "ok"

\* list(self.callbacks): the orders in which a set can be listed
Orders(S) ==
    { s \in [1..Cardinality(S) -> S] : \A i, j \in 1..Cardinality(S) : i # j => s[i] # s[j] }

\* (variant: the except clause matches nothing)
Caught_nothing(kind) == FALSE

\* `except self.exceptions` of Policy.start and ExceptionThread.run
Caught(kind) == exceptions # None /\ kind \in exceptions[1]

\* one dispatch unit per callback, bound to its filtered kwargs
Unit(callback, kwargs, req) ==
    [target |-> callback, kwargs |-> get_callback_kwargs(callback, kwargs),
     st |-> "new", exc |-> None, req |-> req]

\* (variant: the last callback of the list gets no dispatch unit)
prepare_callbacks_drop_last(order, kwargs, req) ==
    [i \in 1..(Len(order) - 1) |-> Unit(order[i], kwargs, req)]

\* prepare_callbacks of SinglePolicy and ThreadingPolicy
prepare_callbacks(order, kwargs, req) ==
    [i \in 1..Len(order) |-> Unit(order[i], kwargs, req)]

\* an exception object: its class, the callable it is about and, for one raised
\* by a callback body, the number of the run_callbacks call of its batch
Exc(kind, callback, req) == [kind |-> kind, by |-> callback, req |-> req]

\* how a registry call ended: "ok", "warn" or "raised" with the exception
Res(op, status, exc) == [op |-> op, status |-> status, exc |-> exc]

\* a thread that calls the handler and is not inside a call
Idle ==
    [pc |-> "idle", action |-> "", list |-> <<>>, idx |-> 0,
     result |-> Res("init", "ok", None)]

\* CallbackHandler.__init__
CallbackHandler_init ==
    /\ delegations = <<>>
    /\ threads = <<>>
    /\ pool = <<>>
    /\ callers = [c \in Callers |-> Idle]
    /\ nexec = 0

\* the four lifecycle registries of the decorator (mixins/base.py)
CALLBACK_LABELS == {"on_call", "on_success", "on_failure", "on_end"}
\* what the decorated function does in one call: it returns a value, raises an
\* exception of one of self.exception_classes, or raises another exception
FuncBehaviours ==
    { [kind |-> "return", value |-> "r1"], [kind |-> "return", value |-> "r2"],
      [kind |-> "raise", value |-> "caught"],
      [kind |-> "raise", value |-> "uncaught"] }
\* self.default_return
default_return == "default"
\* the keyword arguments of one run_callbacks call of the decorator; "-" is a
\* keyword that is not passed
Kw(func, func_result, func_exception, func_kwargs, func_scope_vars) ==
    [func |-> func, func_result |-> func_result,
     func_exception |-> func_exception, func_kwargs |-> func_kwargs,
     func_scope_vars |-> func_scope_vars]
NoKw == Kw("-", "-", "-", "-", "-")
\* one entry of trace
Ev(op, arg, cbs, kwds) == [op |-> op, arg |-> arg, callbacks |-> cbs, kwds |-> kwds]
NoFrame ==
    [behaviour |-> [kind |-> "none", value |-> "-"], defined |-> {},
     func_result |-> "None", func_exception |-> "None",
     func_scope_vars |-> "[]", pending |-> [kind |-> "none", value |-> "-"]]

\* BaseCallBackMixin.__init__: four empty registries, each Ready
CallPyBack_init ==
    /\ lists = [label \in CALLBACK_LABELS |-> [callbacks |-> {}, ready |-> TRUE]]
    /\ main_pc = "idle"
    /\ frame = NoFrame
    /\ trace = <<>>
    /\ tracer_profile = "None"
    /\ returned = [kind |-> "none", value |-> "-"]
    /\ ncalls = 0

\* the event types and the keyword arguments of the enqueued events, the
\* listener functions
EventTypes == {"event_1", "event_2"}
EventKwargs == {"hello", "world"}
Listeners == {"l1", "l2"}

\* EventQueue.__init__
EventQueue_init ==
    /\ listeners = <<>>
    /\ queue = <<>>
    /\ waiting = <<>>
    /\ eq_pc = "idle"
    /\ processing = <<>>
    /\ delivered = <<>>

\* the threads that call the functions wrapped by the monitor, and the
\* wrapped functions
Threads == {1, 2, 3}
Wrapped == {"function_a", "function_b"}
Outside == [pc |-> "idle", func |-> "", waited |-> FALSE]

\* Monitor.__init__ / HoareMonitor.__init__ of an object of class cls
Monitor_init(cls) ==
    /\ mclass = cls
    /\ lock = 0
    /\ is_condition_met = FALSE
    /\ waiters = {}
    /\ mthreads = [t \in Threads |-> Outside]
    /\ signalled = FALSE
    /\ mcalls = 0

\* the functions of examples/composition_example.py: the three composed
\* ones, the prologue lambda x: x + 10 and the epilogue lambda x: x / 2
ComposedFunctions == {"double", "square", "subtract_five"}
ProloqueFunctions == {"plus_ten"}
EpiloqueFunctions == {"half"}
\* the arguments of the calls
Arguments == {3, 4}
\* the sequences of pairwise different elements of S, up to n long
Arrangements(S, n) ==
    UNION { {q \in [1..k -> S] : \A i, j \in 1..k : i # j => q[i] # q[j]} : k \in 0..n }
\* reversed(seq)
Reversed(seq) == [i \in 1..Len(seq) |-> seq[Len(seq) + 1 - i]]
NotCalled == [via |-> "none", x |-> 0, out |-> NaN]

\* Composition.__init__(*fs): self._funcs = tuple(reversed(funcs))
Composition_init(fs) ==
    /\ funcs = Reversed(fs)
    /\ given = fs
    /\ proloque = None
    /\ epiloque = None
    /\ called = NotCalled

\* the holders of the registry lock
Free == <<>>
CallerThread == << "caller" >>
CallbackThread(i) == << "thread", i >>
\* the callbacks of the locked registry: one that only returns, one that
\* calls add_callback(extra) on its own registry, one that calls
\* remove_callback on itself
LockCallbacks == {"plain", "adder", "remover"}
\* the callback that "adder" registers
ExtraCallback == "extra"
LockTargets == LockCallbacks \cup {ExtraCallback}
\* no thread of the scheduler has this target
NoThreads == [c \in LockTargets |-> "none"]

\* CallbackList.__init__ followed by add_callback of the callbacks cbs
LockedList_init(cbs) ==
    /\ rl_owner = Free
    /\ rl_ready = TRUE
    /\ rl_callbacks = cbs
    /\ rl_threads = NoThreads
    /\ rl_caller = "idle"
    /\ rl_nrun = 0

\* no dispatch call has been made since the listeners last changed
NotDispatched ==
    [pc |-> "idle", type |-> "", kwargs |-> "", found |-> FALSE,
     units |-> {}, counts |-> [l \in Listeners |-> 0]]

\* EventDispatcher.__init__
EventDispatcher_init ==
    /\ d_listeners = <<>>
    /\ dispatched = NotDispatched

Extras_init ==
    /\ Composition_init(<<>>)
    /\ LockedList_init({})
    /\ EventDispatcher_init

Tools_init ==
    /\ CallPyBack_init
    /\ EventQueue_init
    /\ Monitor_init("Monitor")
    /\ Extras_init

\* Reduction.__init__(trace_calls) of the concrete class cls
Reduction_init(cls, trace_calls) ==
    /\ rclass = cls
    /\ returnvars = <<>>
    /\ localvars = <<>>
    /\ call_hook = <<>>
    /\ trace_call_names = trace_calls
    /\ reduced = [op |-> "init", input |-> <<>>, out |-> NaN]
    /\ nev = 0

\* ------------------------------------------------------------------ Init
Init ==
    /\ policy \in {"Single", "Threading"}
    /\ exceptions \in {None, Some({"A", "B"})}
    /\ tracer \in {"None", "tracer"}
    /\ profile = "None"
    /\ callbacks = {}
    /\ allowed_parameters = {"x", "y"}
    /\ ready = TRUE
    /\ units = <<>>
    /\ pc = "idle"
    /\ idx = 0
    /\ result = Res("init", "ok", None)
    /\ nreq = 0
    /\ accepted = None
    /\ invoked = <<>>
    /\ Reduction_init("Sum", None)
    /\ stack = <<>>
    /\ CallbackHandler_init
    /\ Tools_init

\* ------------------------------------------------------------ operations
\* (variant: a callback added while a batch is running joins that batch)
add_callback_live(callback) ==
    /\ pc = "idle"
    /\ LET v == validate_callback(callback) IN
         IF v = "ok"
         THEN /\ callbacks' = callbacks \cup {callback}
              /\ result' = Res("add_callback", "ok", None)
              /\ units' = IF ~ready /\ callback \notin callbacks
                          THEN Append(units, [Unit(callback, accepted[1].kw, accepted[1].req)
                                                EXCEPT !.st = IF policy = "Single" THEN "new" ELSE "started"])
                          ELSE units
         ELSE /\ callbacks' = callbacks
              /\ units' = units
              /\ result' = Res("add_callback", "raised", Some(Exc(v, callback, 0)))
    /\ UNCHANGED <<ext, config, history, profile, ready, pc, idx>>

\* CallbackList.add_callback
add_callback(callback) ==
    /\ pc = "idle"
    /\ LET v == validate_callback(callback) IN
         IF v = "ok"
         THEN /\ callbacks' = callbacks \cup {callback}
              /\ result' = Res("add_callback", "ok", None)
         ELSE /\ callbacks' = callbacks
              /\ result' = Res("add_callback", "raised", Some(Exc(v, callback, 0)))
    /\ UNCHANGED <<ext, config, history, profile, ready, units, pc, idx>>

\* (variant: removing the last callback makes the registry Ready)
remove_callback_resetting(callback) ==
    /\ pc = "idle"
    /\ IF callback \in callbacks
       THEN /\ callbacks' = callbacks \ {callback}
            /\ ready' = (ready \/ callbacks' = {})
            /\ result' = Res("remove_callback", "ok", None)
       ELSE /\ callbacks' = callbacks
            /\ ready' = ready
            /\ result' = Res("remove_callback", "raised", Some(Exc("KeyError", callback, 0)))
    /\ UNCHANGED <<ext, config, history, profile, units, pc, idx>>

\* CallbackList.remove_callback
remove_callback(callback) ==
    /\ pc = "idle"
    /\ IF callback \in callbacks
       THEN /\ callbacks' = callbacks \ {callback}
            /\ result' = Res("remove_callback", "ok", None)
       ELSE /\ callbacks' = callbacks
            /\ result' = Res("remove_callback", "raised", Some(Exc("KeyError", callback, 0)))
    /\ UNCHANGED <<ext, config, history, profile, ready, units, pc, idx>>

\* CallbackList.validate_callbacks
validate_callbacks ==
    /\ pc = "idle"
    /\ IF \A c \in callbacks : validate_callback(c) = "ok"
       THEN result' = Res("validate_callbacks", "ok", None)
       ELSE \E c \in callbacks :
               /\ validate_callback(c) # "ok"
               /\ result' = Res("validate_callbacks", "raised", Some(Exc(validate_callback(c), c, 0)))
    /\ UNCHANGED <<ext, config, history, profile, callbacks, ready, units, pc, idx>>

Invocation(unit, out) ==
    [cb |-> unit.target, kw |-> unit.kwargs, req |-> unit.req, out |-> out]

\* ThreadingPolicy._start: thread.start() for every prepared thread
ThreadingPolicy_start(batch) ==
    [i \in 1..Len(batch) |-> [batch[i] EXCEPT !.st = "started"]]

\* (variant: run_callbacks does not look at self._ready)
run_accepts_always == TRUE

\* `if self._ready:` of run_callbacks
run_accepts == ready

\* (variant: join_callbacks does not look at self._ready)
join_accepts_always == TRUE

\* `if not self._ready:` of join_callbacks
join_accepts == ~ready

\* CallbackList.run_callbacks(**kwds), up to the point where the caller either
\* returns (warning branch, ThreadingPolicy) or enters SinglePolicy._start
run_callbacks(kwds) ==
    /\ pc = "idle"
    /\ nreq < MaxRuns
    /\ nreq' = nreq + 1
    /\ IF run_accepts
       THEN \E order \in Orders(callbacks) :
              LET batch == prepare_callbacks(order, kwds, nreq + 1) IN
              /\ accepted' = Some([req |-> nreq + 1, kw |-> kwds, cbs |-> callbacks])
              /\ invoked' = <<>>
              \* Policy.start: self._set_trace_profiler(self.tracer); self._start()
              /\ profile' = tracer
              /\ IF policy = "Single"
                 THEN /\ units' = batch
                      /\ pc' = "start"
                      /\ idx' = 1
                      /\ UNCHANGED <<ready, result>>
                 ELSE /\ units' = ThreadingPolicy_start(batch)
                      /\ ready' = FALSE
                      /\ result' = Res("run_callbacks", "ok", None)
                      /\ UNCHANGED <<pc, idx>>
       ELSE /\ result' = Res("run_callbacks", "warn", None)
            /\ UNCHANGED <<profile, units, ready, pc, idx, accepted, invoked>>
    /\ UNCHANGED <<ext, config, callbacks>>

\* (variant: an exception of a callback is swallowed and the loop goes on)
SinglePolicy_start_step_swallow ==
    /\ pc = "start"
    /\ IF idx > Len(units)
       THEN /\ ready' = FALSE
            /\ pc' = "idle"
            /\ result' = Res("run_callbacks", "ok", None)
            /\ UNCHANGED <<profile, idx, invoked>>
       ELSE \E out \in Outcomes :
              /\ invoked' = Append(invoked, Invocation(units[idx], out))
              /\ idx' = idx + 1
              /\ UNCHANGED <<profile, pc, result, ready>>
    /\ UNCHANGED <<ext, config, callbacks, units, nreq, accepted>>

\* one iteration of the loop of SinglePolicy._start in the calling thread, with
\* the exit paths of Policy.start and the rest of run_callbacks
SinglePolicy_start_step ==
    /\ pc = "start"
    /\ IF idx > Len(units)
       THEN \* _start and Policy.start return; run_callbacks: self._ready = False
            /\ ready' = FALSE
            /\ IF stack = <<>>
               THEN /\ pc' = "idle"
                    /\ result' = Res("run_callbacks", "ok", None)
                    /\ UNCHANGED <<idx, invoked, units, stack>>
                    /\ UNCHANGED profile
               ELSE \* the caller is a callback of an outer loop: it goes on and
                    \* returns, and the outer loop moves to its next callback,
                    \* or it raises and the exception leaves the outer loops
                    LET outer == stack[Len(stack)] IN
                    \E out \in Outcomes :
                      /\ invoked' = Append(invoked, Invocation(outer.units[outer.idx], out))
                      /\ IF out = "ok"
                         THEN /\ stack' = SubSeq(stack, 1, Len(stack) - 1)
                              /\ units' = outer.units
                              /\ idx' = outer.idx + 1
                              /\ UNCHANGED <<pc, result, profile>>
                         ELSE /\ profile' = IF Caught(out) THEN "None" ELSE profile
                              /\ pc' = "idle"
                              /\ result' = Res("run_callbacks", "raised",
                                               Some(Exc(out, outer.units[outer.idx].target,
                                                        outer.units[outer.idx].req)))
                              /\ stack' = <<>>
                              /\ UNCHANGED <<idx, units>>
       ELSE \E out \in Outcomes :
              /\ invoked' = Append(invoked, Invocation(units[idx], out))
              /\ IF out = "ok"
                 THEN /\ idx' = idx + 1
                      /\ UNCHANGED <<profile, pc, result, ready, stack>>
                 ELSE \* the exception leaves _start, Policy.start and run_callbacks
                      \* (and the callbacks of outer loops that called it)
                      /\ profile' = IF Caught(out) THEN "None" ELSE profile
                      /\ pc' = "idle"
                      /\ result' = Res("run_callbacks", "raised",
                                       Some(Exc(out, units[idx].target, units[idx].req)))
                      /\ stack' = <<>>
                      /\ UNCHANGED <<idx, ready>>
              /\ UNCHANGED units
    /\ UNCHANGED <<reduction, handler, tools, config, callbacks, nreq, accepted>>

\* CallbackList.run_callbacks(**kwds) called by a callback of the batch that is
\* running: by the callback the loop of SinglePolicy._start is calling, in the
\* thread that holds the (reentrant) lock, or by a started thread of
\* ThreadingPolicy once the lock is free
Callback_run_callbacks(kwds) ==
    /\ nreq < MaxRuns
    /\ nreq' = nreq + 1
    /\ \/ /\ pc = "start" /\ idx <= Len(units)
          /\ IF run_accepts
             THEN \E order \in Orders(callbacks) :
                    /\ accepted' = Some([req |-> nreq + 1, kw |-> kwds, cbs |-> callbacks])
                    /\ invoked' = <<>>
                    /\ profile' = tracer
                    /\ stack' = Append(stack, [units |-> units, idx |-> idx])
                    /\ units' = prepare_callbacks(order, kwds, nreq + 1)
                    /\ idx' = 1
             ELSE UNCHANGED <<accepted, invoked, profile, stack, units, idx>>
       \/ /\ pc = "idle" /\ policy = "Threading"
          /\ \E i \in 1..Len(units) : units[i].st = "started"
          /\ ~run_accepts
          /\ UNCHANGED <<accepted, invoked, profile, stack, units, idx>>
    /\ UNCHANGED <<reduction, handler, tools, config, callbacks, ready, pc, result>>

\* (variant: once a callback of the batch has raised, the threads that have
\* not called their target yet do not call it)
ExceptionThread_run_unless_failed(i) ==
    /\ policy = "Threading"
    /\ i \in 1..Len(units)
    /\ units[i].st = "started"
    /\ \A j \in 1..Len(invoked) : invoked[j].out = "ok"
    /\ \E out \in Outcomes :
         /\ invoked' = Append(invoked, Invocation(units[i], out))
         /\ units' = [units EXCEPT ![i].st = "done",
                                   ![i].exc = IF Caught(out)
                                              THEN Some(Exc(out, units[i].target, units[i].req))
                                              ELSE None]
    /\ UNCHANGED <<ext, config, profile, callbacks, ready, pc, idx, result, nreq, accepted>>

\* ExceptionThread.run of the i-th thread of the batch: the target is invoked
\* and the thread finishes; an allow-listed exception is kept in self.exc
ExceptionThread_run(i) ==
    /\ policy = "Threading"
    /\ i \in 1..Len(units)
    /\ units[i].st = "started"
    /\ \E out \in Outcomes :
         /\ invoked' = Append(invoked, Invocation(units[i], out))
         /\ units' = [units EXCEPT ![i].st = "done",
                                   ![i].exc = IF Caught(out)
                                              THEN Some(Exc(out, units[i].target, units[i].req))
                                              ELSE None]
    /\ UNCHANGED <<ext, config, profile, callbacks, ready, pc, idx, result, nreq, accepted>>

\* CallbackList.join_callbacks, up to the point where the caller either returns
\* (warning branch, SinglePolicy) or enters the loop of ThreadingPolicy._join
join_callbacks ==
    /\ pc = "idle"
    /\ IF join_accepts
       THEN IF policy = "Single"
            THEN \* Policy.join: _join is a no-op, then _set_trace_profiler(None)
                 /\ profile' = "None"
                 /\ ready' = TRUE
                 /\ result' = Res("join_callbacks", "ok", None)
                 /\ UNCHANGED <<pc, idx>>
            ELSE /\ pc' = "join"
                 /\ idx' = 1
                 /\ UNCHANGED <<profile, ready, result>>
       ELSE /\ result' = Res("join_callbacks", "warn", None)
            /\ UNCHANGED <<profile, ready, pc, idx>>
    /\ UNCHANGED <<ext, config, history, callbacks, units>>

\* one iteration of the loop of ThreadingPolicy._join (ExceptionThread.join of
\* the idx-th thread), with the rest of Policy.join and join_callbacks
ThreadingPolicy_join_step ==
    /\ pc = "join"
    /\ IF idx > Len(units)
       THEN \* Policy.join: self._set_trace_profiler(None); then self._ready = True
            /\ profile' = "None"
            /\ ready' = TRUE
            /\ pc' = "idle"
            /\ result' = Res("join_callbacks", "ok", None)
            /\ UNCHANGED idx
       ELSE \* threading.Thread.join blocks until the thread has finished
            /\ units[idx].st = "done"
            /\ IF units[idx].exc # None
               THEN \* raise self.exc: leaves _join, Policy.join and join_callbacks
                    /\ pc' = "idle"
                    /\ result' = Res("join_callbacks", "raised", units[idx].exc)
                    /\ UNCHANGED <<profile, ready, idx>>
               ELSE /\ idx' = idx + 1
                    /\ UNCHANGED <<profile, ready, pc, result>>
    /\ UNCHANGED <<ext, config, history, callbacks, units>>

Next ==
    \/ \E c \in Candidates : add_callback(c)
    \/ \E c \in Functions : remove_callback(c)
    \/ validate_callbacks
    \/ \E kwds \in KwargsSet : run_callbacks(kwds)
    \/ SinglePolicy_start_step
    \/ \E i \in 1..Len(units) : ExceptionThread_run(i)
    \/ join_callbacks
    \/ ThreadingPolicy_join_step

Spec == Init /\ [][Next]_vars

\* the caller goes on with the loop it is in and keeps calling
\* join_callbacks, and every started thread runs
SpecFair ==
    /\ Spec
    /\ WF_vars(join_callbacks)
    /\ WF_vars(ThreadingPolicy_join_step)
    /\ WF_vars(SinglePolicy_start_step)
    /\ WF_vars(\E i \in 1..Len(units) : ExceptionThread_run(i))

\* ------------------------------------------------------------ Reduction
\* (variant: every assignment adds an entry, nothing is replaced)
DictSet_append(d, key, value) == Append(d, [name |-> key, val |-> value])

\* dict[key] = value on a dict kept in insertion order
DictSet(d, key, value) ==
    IF \E i \in 1..Len(d) : d[i].name = key
    THEN [i \in 1..Len(d) |-> IF d[i].name = key THEN [name |-> key, val |-> value] ELSE d[i]]
    ELSE Append(d, [name |-> key, val |-> value])

\* (variant: only the first recorded value is listed)
DictValues_first(d) == IF d = <<>> THEN <<>> ELSE <<d[1].val>>

\* list(dict.values())
DictValues(d) == [i \in 1..Len(d) |-> d[i].val]

\* sum(values)
RECURSIVE SeqSum(_)
SeqSum(values) ==
    IF values = <<>> THEN 0 ELSE values[1] + SeqSum(Tail(values))

\* max(values) and min(values) of a non-empty list
SeqMax(values) == CHOOSE m \in {values[i] : i \in 1..Len(values)} :
                      \A i \in 1..Len(values) : values[i] <= m
SeqMin(values) == CHOOSE m \in {values[i] : i \in 1..Len(values)} :
                      \A i \in 1..Len(values) : values[i] >= m

\* <Class>Reduction.reduce(values)
reduce(cls, values) ==
    CASE cls = "Sum" -> Num(SeqSum(values))
      [] cls = "Mean" -> IF values # <<>> THEN Quot(SeqSum(values), Len(values)) ELSE NaN
      [] cls = "Max" -> IF values = <<>> THEN NaN ELSE Num(SeqMax(values))
      [] cls = "Min" -> IF values = <<>> THEN NaN ELSE Num(SeqMin(values))
      [] OTHER -> ListOf(values)

\* (variant: reduce_return does not look whether anything was recorded)
reduce_return_unchecked(cls, rv) ==
    IF cls = "Dict" THEN DictOf(rv) ELSE reduce(cls, DictValues(rv))

\* Reduction.reduce_return, DictReduction.reduce_return
reduce_return(cls, rv) ==
    IF cls = "Dict" THEN DictOf(rv)
    ELSE IF rv = <<>> THEN NaN
    ELSE reduce(cls, DictValues(rv))

\* Reduction.tracer(frame, event, arg): name is frame.f_code.co_name and
\* locals is frame.f_locals
Reduction_tracer(name, event, arg, locals) ==
    /\ nev < MaxEvents
    /\ nev' = nev + 1
    /\ call_hook' = IF event = "call"
                        /\ (trace_call_names = None \/ name \in trace_call_names[1])
                     THEN Append(call_hook, name)
                     ELSE call_hook
    /\ IF event = "return" /\ \E i \in 1..Len(call_hook) : call_hook[i] = name
       THEN /\ returnvars' = DictSet(returnvars, name, arg)
            /\ localvars' = DictSet(localvars, name, locals)
            /\ reduced' = [op |-> "tracer", input |-> <<name, event, arg, locals>>,
                           out |-> None]
       ELSE /\ UNCHANGED <<returnvars, localvars>>
            \* arg and frame.f_locals are not looked at
            /\ reduced' = [op |-> "tracer", input |-> <<name, event>>, out |-> None]
    /\ UNCHANGED <<registry, stack, handler, tools, rclass, trace_call_names>>

\* Reduction.set_trace_call_names(names)
Reduction_set_trace_call_names(names) ==
    /\ trace_call_names' = names
    /\ reduced' = [op |-> "set_trace_call_names", input |-> names, out |-> None]
    /\ UNCHANGED <<registry, stack, handler, tools, rclass, returnvars, localvars, call_hook, nev>>

\* a call of reduce_return()
Reduction_reduce_return ==
    /\ reduced' = [op |-> "reduce_return", input |-> returnvars,
                   out |-> reduce_return(rclass, returnvars)]
    /\ UNCHANGED <<registry, stack, handler, tools, rclass, returnvars, localvars, call_hook, trace_call_names, nev>>

\* a call of reduce(values)
Reduction_reduce(values) ==
    /\ reduced' = [op |-> "reduce", input |-> values, out |-> reduce(rclass, values)]
    /\ UNCHANGED <<registry, stack, handler, tools, rclass, returnvars, localvars, call_hook, trace_call_names, nev>>

\* a registry nobody uses
RegistryIdle ==
    /\ policy = "Single" /\ exceptions = None /\ tracer = "None" /\ profile = "None"
    /\ callbacks = {} /\ allowed_parameters = {} /\ ready = TRUE /\ units = <<>>
    /\ pc = "idle" /\ idx = 0 /\ result = Res("init", "ok", None)
    /\ nreq = 0 /\ accepted = None /\ invoked = <<>>

InitReduction ==
    /\ RegistryIdle
    /\ \E cls \in ReductionClasses, trace_calls \in {None, Some({"f"})} :
          Reduction_init(cls, trace_calls)
    /\ stack = <<>>
    /\ CallbackHandler_init
    /\ Tools_init

NextReduction ==
    \* the profiler passes arg = None with every event but "return"
    \/ \E name \in CallNames, event \in Events \ {"return"} :
          Reduction_tracer(name, event, None, <<>>)
    \/ \E name \in CallNames, arg \in ReturnValues, locals \in LocalsSet :
          Reduction_tracer(name, "return", arg, locals)
    \/ \E names \in {None, Some({"f"}), Some({"g"})} : Reduction_set_trace_call_names(names)
    \/ Reduction_reduce_return
    \/ \E values \in ValueLists : Reduction_reduce(values)

SpecReduction == InitReduction /\ [][NextReduction]_vars

\* the return values an aggregator can hold after tracing calls of up to
\* MaxRecorded distinct functions, in the order of their first return
TracedNames == {"f", "g", "h"}
TracedValues == {1, 2, 3}
Recordings ==
    UNION { { d \in [1..n -> [name : TracedNames, val : TracedValues]] :
                \A i, j \in 1..n : i # j => d[i].name # d[j].name }
            : n \in 0..MaxRecorded }

\* an aggregator that has recorded the returns rv (and the locals v = 1 of
\* each of these calls), with no trace-name filter
InitReduce ==
    /\ RegistryIdle
    /\ stack = <<>>
    /\ CallbackHandler_init
    /\ Tools_init
    /\ rclass \in ReductionClasses
    /\ returnvars \in Recordings
    /\ localvars = [i \in 1..Len(returnvars) |->
                      [name |-> returnvars[i].name, val |-> ("v" :> 1)]]
    /\ call_hook = [i \in 1..Len(returnvars) |-> returnvars[i].name]
    /\ trace_call_names = None
    /\ reduced = [op |-> "init", input |-> <<>>, out |-> NaN]
    /\ nev = 0

NextReduce ==
    \/ Reduction_reduce_return
    \/ \E values \in ValueLists : Reduction_reduce(values)

SpecReduce == InitReduce /\ [][NextReduce]_vars

\* ---------------------------------------------------- policy construction
PolicyClasses == {"SinglePolicy", "ThreadingPolicy", "MultiprocessingPolicy"}

\* the methods Policy declares with @abstractmethod
AbstractMethods == {"prepare_callbacks", "_start", "_set_trace_profiler", "_join"}

\* the methods a policy class defines in its body
Defines(cls) ==
    CASE cls = "SinglePolicy" ->
           {"__init__", "prepare_callbacks", "_start", "_join", "_set_trace_profiler"}
      [] cls = "ThreadingPolicy" ->
           {"__init__", "prepare_callbacks", "_start", "_join", "_set_trace_profiler"}
      [] cls = "MultiprocessingPolicy" ->
           {"__init__", "prepare_callbacks", "_start", "_join"}

\* the value of the registry's policy for an instance of the class
PolicyOf(cls) ==
    CASE cls = "SinglePolicy" -> "Single"
      [] cls = "ThreadingPolicy" -> "Threading"
      [] cls = "MultiprocessingPolicy" -> "Multiprocessing"

\* ABC: a class is instantiable when no abstract method is left undefined
Instantiable(cls) == AbstractMethods \subseteq Defines(cls)

\* CallbackList(policy=cls(exceptions, tracer)): the policy is constructed
\* first; when that raises TypeError no registry exists
Policy_new(cls) ==
    /\ pc = "new"
    /\ IF Instantiable(cls)
       THEN /\ policy' = PolicyOf(cls)
            /\ pc' = "idle"
            /\ result' = Res(cls, "ok", None)
       ELSE /\ pc' = "failed"
            /\ result' = Res(cls, "raised", Exc("TypeError", cls, 0))
            /\ UNCHANGED policy
    /\ UNCHANGED <<ext, history, exceptions, tracer, allowed_parameters, profile,
                   callbacks, ready, units, idx>>

InitPolicies ==
    /\ policy = "None" /\ pc = "new"
    /\ exceptions = None /\ tracer = "None" /\ profile = "None"
    /\ callbacks = {} /\ allowed_parameters = {"x", "y"} /\ ready = TRUE /\ units = <<>>
    /\ idx = 0 /\ result = Res("init", "ok", None)
    /\ nreq = 0 /\ accepted = None /\ invoked = <<>>
    /\ Reduction_init("Sum", None)
    /\ stack = <<>>
    /\ CallbackHandler_init
    /\ Tools_init

NextPolicies ==
    \/ \E cls \in PolicyClasses : Policy_new(cls)
    \/ Next

SpecPolicies == InitPolicies /\ [][NextPolicies]_vars

\* ------------------------------------------- callbacks that call the registry
InitReentrant ==
    /\ policy \in {"Single", "Threading"}
    /\ exceptions = None /\ tracer = "None" /\ profile = "None"
    /\ callbacks = {} /\ allowed_parameters = {"x", "y"} /\ ready = TRUE /\ units = <<>>
    /\ pc = "idle" /\ idx = 0 /\ result = Res("init", "ok", None)
    /\ nreq = 0 /\ accepted = None /\ invoked = <<>>
    /\ Reduction_init("Sum", None)
    /\ stack = <<>>
    /\ CallbackHandler_init
    /\ Tools_init

NextReentrant ==
    \/ Next
    \/ \E kwds \in KwargsSet : Callback_run_callbacks(kwds)

SpecReentrant == InitReentrant /\ [][NextReentrant]_vars

\* ------------------------------------------------------- CallbackHandler
\* CallbackList(policy=self.policy, ...): a new registry, empty and Ready
CallbackList_init == [callbacks |-> {}, ready |-> TRUE]

\* ExceptionThread(target=callback, kwargs=...) made by prepare_callbacks for
\* the registry of an action
DispatchUnit(action, callback, kwargs, req) ==
    [act |-> action, target |-> callback,
     kwargs |-> get_callback_kwargs(callback, kwargs),
     st |-> "new", exc |-> None, req |-> req]

\* a thread object that was reclaimed
Collected ==
    [act |-> "", target |-> "", kwargs |-> <<>>, st |-> "collected", exc |-> None, req |-> 0]

\* the pool once the thread objects that have finished (or were never started)
\* and that neither the policy's list thr nor a caller's loop in cal refers
\* to have been reclaimed
Collect(p, thr, cal) ==
    [i \in 1..Len(p) |->
        IF /\ p[i].st # "started"
           /\ \A j \in 1..Len(thr) : thr[j] # i
           /\ \A c \in Callers : \A j \in 1..Len(cal[c].list) : cal[c].list[j] # i
        THEN Collected
        ELSE p[i]]

\* the registry of the action is locked: a caller is inside its join_callbacks
Locked(action) ==
    \E c \in Callers : callers[c].pc = "joining" /\ callers[c].action = action

\* the caller c ends a call with the result r
Return(c, r) == [callers EXCEPT ![c] = [Idle EXCEPT !.result = r]]

\* (variant: an action that is already declared keeps its registry)
add_delegation_keep(action) ==
    /\ \A d \in Callers : callers[d].pc = "idle"
    /\ delegations' = delegations @@ (action :> CallbackList_init)
    /\ callers' = Return(Owner, Res("add_delegation", "ok", None))
    /\ UNCHANGED <<registry, reduction, stack, tools, threads, pool, nexec>>

\* CallbackHandler.add_delegation(action, allowed_parameters)
add_delegation(action) ==
    /\ \A d \in Callers : callers[d].pc = "idle"
    /\ delegations' = (action :> CallbackList_init) @@ delegations
    /\ callers' = Return(Owner, Res("add_delegation", "ok", None))
    /\ UNCHANGED <<registry, reduction, stack, tools, threads, pool, nexec>>

\* (variant: an action that was not declared gets a registry on the fly)
RECURSIVE delegate_creating(_, _)
delegate_creating(d, items) ==
    IF items = <<>> THEN [delegations |-> d, exc |-> None]
    ELSE LET action == items[1].action
             func == items[1].func
             e == IF action \in DOMAIN d THEN d ELSE (action :> CallbackList_init) @@ d
         IN delegate_creating([e EXCEPT ![action].callbacks = @ \cup {func}], Tail(items))

\* the loop of delegate_function over kwargs.items(): the registries after it
\* and the exception that ended it, if any
RECURSIVE delegate(_, _)
delegate(d, items) ==
    IF items = <<>> THEN [delegations |-> d, exc |-> None]
    ELSE LET action == items[1].action
             func == items[1].func
         IN IF action \in DOMAIN d
            THEN IF validate_callback(func) = "ok"
                 THEN delegate([d EXCEPT ![action].callbacks = @ \cup {func}], Tail(items))
                 ELSE [delegations |-> d, exc |-> Some(Exc(validate_callback(func), func, 0))]
            ELSE [delegations |-> d, exc |-> Some(Exc("ValueError", action, 0))]

\* CallbackHandler.delegate_function(**kwargs)
delegate_function(kwargs) ==
    /\ \A d \in Callers : callers[d].pc = "idle"
    /\ LET r == delegate(delegations, kwargs) IN
         /\ delegations' = r.delegations
         /\ callers' = Return(Owner, Res("delegate_function",
                                     IF r.exc = None THEN "ok" ELSE "raised", r.exc))
    /\ UNCHANGED <<registry, reduction, stack, tools, threads, pool, nexec>>

\* CallbackHandler.execute(action, **kwargs) up to the return of run_callbacks
execute(c, action, kwargs) ==
    /\ callers[c].pc = "idle"
    /\ nexec < MaxRuns
    /\ nexec' = nexec + 1
    /\ IF action \notin DOMAIN delegations
       THEN /\ callers' = Return(c, Res("execute", "raised",
                                        Some(Exc("ValueError", action, 0))))
            /\ UNCHANGED <<delegations, threads, pool>>
       ELSE /\ ~Locked(action)
            /\ IF delegations[action].ready
               THEN \E order \in Orders(delegations[action].callbacks) :
                      LET n == Len(order)
                          batch == [i \in 1..n |-> DispatchUnit(action, order[i], kwargs, nexec + 1)]
                      IN
                      /\ threads' = [i \in 1..n |-> Len(pool) + i]
                      /\ IF policy = "Threading"
                         THEN /\ delegations' = [delegations EXCEPT ![action].ready = FALSE]
                              /\ callers' = [callers EXCEPT ![c] =
                                               [@ EXCEPT !.pc = "join", !.action = action]]
                              /\ pool' = Collect(pool \o [i \in 1..n |->
                                                            [batch[i] EXCEPT !.st = "started"]],
                                                 threads', callers')
                         ELSE \* SinglePolicy._start: the callbacks run here, up
                              \* to the first one that raises (k = 0: none does)
                              \E k \in 0..n :
                                /\ IF k = 0
                                   THEN /\ delegations' = [delegations EXCEPT ![action].ready = FALSE]
                                        /\ callers' = [callers EXCEPT ![c] =
                                                         [@ EXCEPT !.pc = "join", !.action = action]]
                                   ELSE /\ UNCHANGED delegations
                                        /\ callers' = Return(c, Res("execute", "raised",
                                                          Some(Exc("A", order[k], nexec + 1))))
                                /\ pool' = Collect(pool \o
                                     [i \in 1..n |->
                                        IF k = 0 \/ i < k
                                        THEN [batch[i] EXCEPT !.st = "done"]
                                        ELSE IF i = k
                                        THEN [batch[i] EXCEPT !.st = "raised"]
                                        ELSE batch[i]], threads', callers')
               ELSE \* the warning of run_callbacks
                    /\ callers' = [callers EXCEPT ![c] =
                                     [@ EXCEPT !.pc = "join", !.action = action]]
                    /\ UNCHANGED <<delegations, threads, pool>>
    /\ UNCHANGED <<registry, reduction, stack, tools>>

\* execute: join_callbacks of the action's registry up to the loop of
\* ThreadingPolicy._join, which iterates the policy's current thread list
execute_join(c) ==
    /\ callers[c].pc = "join"
    /\ LET action == callers[c].action IN
         /\ ~Locked(action)
         /\ IF ~delegations[action].ready
            THEN IF policy = "Threading"
                 THEN /\ callers' = [callers EXCEPT ![c] =
                                       [@ EXCEPT !.pc = "joining", !.list = threads, !.idx = 1]]
                      /\ UNCHANGED delegations
                 ELSE /\ delegations' = [delegations EXCEPT ![action].ready = TRUE]
                      /\ callers' = Return(c, Res("execute", "ok", None))
            ELSE \* the warning of join_callbacks
                 /\ callers' = Return(c, Res("execute", "ok", None))
                 /\ UNCHANGED delegations
    /\ UNCHANGED <<registry, reduction, stack, tools, threads, pool, nexec>>

\* one iteration of the loop of ThreadingPolicy._join inside execute, and the
\* rest of join_callbacks after the loop
execute_join_step(c) ==
    /\ callers[c].pc = "joining"
    /\ LET action == callers[c].action
           list == callers[c].list
           i == callers[c].idx
       IN IF i > Len(list)
          THEN /\ delegations' = [delegations EXCEPT ![action].ready = TRUE]
               /\ callers' = Return(c, Res("execute", "ok", None))
          ELSE /\ pool[list[i]].st = "done"
               /\ IF pool[list[i]].exc # None
                  THEN callers' = Return(c, Res("execute", "raised", pool[list[i]].exc))
                  ELSE callers' = [callers EXCEPT ![c].idx = i + 1]
               /\ UNCHANGED delegations
    /\ pool' = Collect(pool, threads, callers')
    /\ UNCHANGED <<registry, reduction, stack, tools, threads, nexec>>

\* ExceptionThread.run of a started thread of the pool
ExceptionThread_run_pooled(i) ==
    /\ pool[i].st = "started"
    /\ \E out \in {"ok", "A", "X"} :
         pool' = Collect([pool EXCEPT ![i] =
                            [@ EXCEPT !.st = "done",
                                      !.exc = IF out # "ok" /\ Caught(out)
                                              THEN Some(Exc(out, pool[i].target, pool[i].req))
                                              ELSE None]],
                         threads, callers)
    /\ UNCHANGED <<registry, reduction, stack, tools, delegations, threads, callers, nexec>>

InitHandler ==
    /\ \/ policy = "Single" /\ exceptions = None
       \/ policy = "Threading" /\ exceptions = Some({"A"})
    /\ tracer = "None" /\ profile = "None"
    /\ callbacks = {} /\ allowed_parameters = {"x", "y"} /\ ready = TRUE /\ units = <<>>
    /\ pc = "idle" /\ idx = 0 /\ result = Res("init", "ok", None)
    /\ nreq = 0 /\ accepted = None /\ invoked = <<>>
    /\ Reduction_init("Sum", None)
    /\ stack = <<>>
    /\ CallbackHandler_init
    /\ Tools_init

NextHandler ==
    \/ \E action \in ActionNames : add_delegation(action)
    \/ \E kwargs \in DelegateKwargs : delegate_function(kwargs)
    \/ \E c \in Callers, action \in ActionNames, kwargs \in HandlerKwargs :
          execute(c, action, kwargs)
    \/ \E c \in Callers : execute_join(c)
    \/ \E c \in Callers : execute_join_step(c)
    \/ \E i \in 1..Len(pool) : ExceptionThread_run_pooled(i)

SpecHandler == InitHandler /\ [][NextHandler]_vars

\* ------------------------------------------------- CallPyBack decorator
\* callpyback.py, CallPyBack(BaseCallBackMixin, ExtendedCallBackMixin): the
\* wrapper returned by __call__ calls main(func, func_args, func_kwargs).
\* The four registries are built by BaseCallBackMixin.__init__ without a
\* policy argument, so each one runs its callbacks on threads
\* (ThreadingPolicy, exceptions = None): run_callbacks returns once the
\* threads are started and raises nothing.

\* the decorators @obj.on_call, @obj.on_success, ...: CallbackList.__call__
\* adds the function to the registry of that label
CallPyBack_add_callback(label) ==
    /\ main_pc = "idle"
    /\ "cb" \notin lists[label].callbacks
    /\ lists' = [lists EXCEPT ![label].callbacks = @ \cup {"cb"}]
    /\ UNCHANGED <<core, extras, eventqueue, monitor,
                   main_pc, frame, trace, tracer_profile, returned, ncalls>>

\* CallbackList.run_callbacks(**kwds) of self.<label>, appended to the
\* history tr: a Ready registry starts its callbacks and becomes Running, a
\* Running one warns
List_run_callbacks(label, kwds, tr) ==
    IF lists[label].ready
    THEN /\ lists' = [lists EXCEPT ![label].ready = FALSE]
         /\ trace' = Append(tr, Ev("run", label, lists[label].callbacks, kwds))
    ELSE /\ trace' = Append(tr, Ev("warn", label, {}, kwds))
         /\ UNCHANGED lists

\* BaseCallBackMixin.run_on_call_func(func, func_kwargs)
run_on_call_func(func, func_kwargs, tr) ==
    List_run_callbacks("on_call", Kw(func, "-", "-", func_kwargs, "-"), tr)

\* BaseCallBackMixin.run_on_success_func(func, func_result, func_kwargs)
run_on_success_func(func, func_result, func_kwargs, tr) ==
    List_run_callbacks("on_success", Kw(func, func_result, "-", func_kwargs, "-"), tr)

\* BaseCallBackMixin.run_on_failure_func(func, func_exception, func_kwargs)
run_on_failure_func(func, func_exception, func_kwargs, tr) ==
    List_run_callbacks("on_failure", Kw(func, "-", func_exception, func_kwargs, "-"), tr)

\* BaseCallBackMixin.run_on_end_func(func, func_result, func_exception,
\* func_kwargs, func_scope_vars)
run_on_end_func(func, func_result, func_exception, func_kwargs, func_scope_vars, tr) ==
    List_run_callbacks("on_end",
        Kw(func, func_result, func_exception, func_kwargs, func_scope_vars), tr)

\* `self.on_end is _default_callback`: self.on_end is the CallbackList that
\* BaseCallBackMixin.__init__ assigned, never the function _default_callback
on_end_is_default_callback == FALSE

\* main, up to the try: validate_arguments (the callbacks were validated when
\* they were added), set_tracer_profile(self.tracer), the three locals
CallPyBack_main(behaviour) ==
    /\ main_pc = "idle"
    /\ ncalls < MaxCalls
    /\ ncalls' = ncalls + 1
    /\ tracer_profile' = "tracer"
    /\ frame' = [NoFrame EXCEPT !.behaviour = behaviour,
                  !.defined = {l \in CALLBACK_LABELS : lists[l].callbacks # {}}]
    /\ trace' = << Ev("set_tracer_profile", "tracer", {}, NoKw) >>
    /\ main_pc' = "on_call"
    /\ UNCHANGED <<core, extras, eventqueue, monitor, lists, returned>>

\* self.run_on_call_func(func_args, func_kwargs)
main_on_call ==
    /\ main_pc = "on_call"
    /\ run_on_call_func("func_args", "func_kwargs", trace)
    /\ main_pc' = "func"
    /\ UNCHANGED <<core, extras, eventqueue, monitor,
                   frame, tracer_profile, returned, ncalls>>

\* func_result = func(*func_args, **func_kwargs) and, when func returned or
\* raised one of self.exception_classes, get_func_scope_vars(); another
\* exception leaves the try statement for the finally clause
main_func ==
    /\ main_pc = "func"
    /\ trace' = Append(trace, Ev("func", frame.behaviour.kind, {}, NoKw))
    /\ CASE frame.behaviour.kind = "return" ->
              /\ frame' = [frame EXCEPT !.func_result = frame.behaviour.value,
                                        !.func_scope_vars = "scope_vars"]
              /\ main_pc' = "on_success"
         [] frame.behaviour.value = "caught" ->
              /\ frame' = [frame EXCEPT !.func_exception = "caught",
                                        !.func_scope_vars = "scope_vars"]
              /\ main_pc' = "on_failure"
         [] OTHER ->
              /\ frame' = [frame EXCEPT !.pending = [kind |-> "raise", value |-> "uncaught"]]
              /\ main_pc' = "finally"
    /\ UNCHANGED <<core, extras, eventqueue, monitor,
                   lists, tracer_profile, returned, ncalls>>

\* self.run_on_success_func(func_result, func_args, func_kwargs);
\* return func_result
main_on_success ==
    /\ main_pc = "on_success"
    /\ run_on_success_func(frame.func_result, "func_args", "func_kwargs", trace)
    /\ frame' = [frame EXCEPT !.pending = [kind |-> "return", value |-> frame.func_result]]
    /\ main_pc' = "finally"
    /\ UNCHANGED <<core, extras, eventqueue, monitor,
                   tracer_profile, returned, ncalls>>

\* self.run_on_failure_func(func_exception, func_args, func_kwargs);
\* return self.default_return
main_on_failure ==
    /\ main_pc = "on_failure"
    /\ run_on_failure_func(frame.func_exception, "func_args", "func_kwargs", trace)
    /\ frame' = [frame EXCEPT !.pending = [kind |-> "return", value |-> default_return]]
    /\ main_pc' = "finally"
    /\ UNCHANGED <<core, extras, eventqueue, monitor,
                   tracer_profile, returned, ncalls>>

\* the finally clause: set_tracer_profile(None); re-raise when on_end is the
\* default callback and func raised; otherwise run_on_end_func(result,
\* func_exception, func_args, func_kwargs, func_scope_vars) and the pending
\* return or exception of the try statement takes effect
main_finally ==
    /\ main_pc = "finally"
    /\ tracer_profile' = "None"
    /\ LET tr == Append(trace, Ev("set_tracer_profile", "None", {}, NoKw))
           end_result == IF frame.func_exception = "None" THEN frame.func_result
                         ELSE default_return
       IN IF on_end_is_default_callback /\ frame.func_exception # "None"
          THEN /\ returned' = [kind |-> "raise", value |-> frame.func_exception]
               /\ trace' = tr
               /\ UNCHANGED lists
          ELSE /\ run_on_end_func(end_result, frame.func_exception, "func_args",
                                  "func_kwargs", frame.func_scope_vars, tr)
               /\ returned' = frame.pending
    /\ main_pc' = "idle"
    /\ UNCHANGED <<core, extras, eventqueue, monitor, frame, ncalls>>

\* BaseCallBackMixin.join_callback_funcs, called by the user of the
\* decorator: join_callbacks of on_end, on_success, on_failure, on_call; a
\* Running registry waits for the threads and becomes Ready, a Ready one warns
join_callback_funcs ==
    /\ main_pc = "idle"
    /\ \E label \in CALLBACK_LABELS : ~lists[label].ready
    /\ lists' = [label \in CALLBACK_LABELS |-> [lists[label] EXCEPT !.ready = TRUE]]
    /\ UNCHANGED <<core, extras, eventqueue, monitor,
                   main_pc, frame, trace, tracer_profile, returned, ncalls>>

InitDecorator ==
    /\ policy = "Threading"
    /\ exceptions = None
    /\ tracer = "None"
    /\ profile = "None"
    /\ callbacks = {}
    /\ allowed_parameters = {}
    /\ ready = TRUE
    /\ units = <<>>
    /\ pc = "idle"
    /\ idx = 0
    /\ result = Res("init", "ok", None)
    /\ nreq = 0
    /\ accepted = None
    /\ invoked = <<>>
    /\ Reduction_init("Sum", None)
    /\ stack = <<>>
    /\ CallbackHandler_init
    /\ Tools_init

NextDecorator ==
    \/ \E label \in CALLBACK_LABELS : CallPyBack_add_callback(label)
    \/ \E behaviour \in FuncBehaviours : CallPyBack_main(behaviour)
    \/ main_on_call
    \/ main_func
    \/ main_on_success
    \/ main_on_failure
    \/ main_finally
    \/ join_callback_funcs

SpecDecorator == InitDecorator /\ [][NextDecorator]_vars

\* --------------------------------------------------------- EventQueue
\* basics/eventqueue.py. One thread uses the queue; the registries are
\* created by append_listener with the policy of the queue (SinglePolicy by
\* default: run_callbacks calls every listener before it returns). Listeners
\* return normally.

\* EventQueue.append_listener(event_type, listener)
append_listener(event_type, listener) ==
    /\ eq_pc = "idle"
    /\ listeners' =
          IF event_type \in DOMAIN listeners
          THEN [listeners EXCEPT ![event_type].callbacks = @ \cup {listener}]
          ELSE (event_type :> [callbacks |-> {listener}, ready |-> TRUE]) @@ listeners
    /\ listeners' # listeners
    /\ UNCHANGED <<core, extras, decorator, monitor, queue, waiting, eq_pc, processing, delivered>>

\* EventQueue.enqueue(event_type, **kwargs)
enqueue(event_type, kwargs) ==
    /\ eq_pc = "idle"
    /\ Len(queue) < MaxQueue
    /\ queue' = Append(queue, [type |-> event_type, kwargs |-> kwargs])
    /\ UNCHANGED <<core, extras, decorator, monitor, listeners, waiting, eq_pc, processing, delivered>>

\* EventQueue.process, entry: waiting = []
process ==
    /\ eq_pc = "idle"
    /\ queue # <<>>
    /\ waiting' = <<>>
    /\ processing' = queue
    /\ delivered' = <<>>
    /\ eq_pc' = "dispatch"
    /\ UNCHANGED <<core, extras, decorator, monitor, listeners, queue>>

\* one round of `while self.queue`: pop the first event and, when its type
\* has a registry, run_callbacks(**kwargs) on it (a Ready registry invokes
\* its listeners and becomes Running, a Running one warns) and append the
\* type to waiting
process_dispatch ==
    /\ eq_pc = "dispatch"
    /\ IF queue = <<>>
       THEN /\ eq_pc' = "join"
            /\ UNCHANGED <<listeners, queue, waiting, delivered>>
       ELSE LET event == Head(queue)
                n == Len(processing) - Len(queue) + 1
            IN /\ queue' = Tail(queue)
               /\ IF event.type \in DOMAIN listeners
                  THEN /\ IF listeners[event.type].ready
                          THEN /\ delivered' = Append(delivered,
                                     [event |-> n, type |-> event.type,
                                      kwargs |-> event.kwargs,
                                      callbacks |-> listeners[event.type].callbacks])
                               /\ listeners' = [listeners EXCEPT ![event.type].ready = FALSE]
                          ELSE UNCHANGED <<delivered, listeners>>
                       /\ waiting' = Append(waiting, event.type)
                  ELSE UNCHANGED <<delivered, listeners, waiting>>
               /\ UNCHANGED eq_pc
    /\ UNCHANGED <<core, extras, decorator, monitor, processing>>

\* one round of `while waiting`: pop the first type and join_callbacks on
\* its registry (a Running registry becomes Ready, a Ready one warns)
process_join ==
    /\ eq_pc = "join"
    /\ IF waiting = <<>>
       THEN /\ eq_pc' = "idle"
            /\ processing' = <<>>
            /\ delivered' = <<>>
            /\ UNCHANGED <<listeners, waiting>>
       ELSE /\ waiting' = Tail(waiting)
            /\ listeners' = [listeners EXCEPT ![Head(waiting)].ready = TRUE]
            /\ UNCHANGED <<eq_pc, processing, delivered>>
    /\ UNCHANGED <<core, extras, decorator, monitor, queue>>

InitEventQueue == InitDecorator

NextEventQueue ==
    \/ \E event_type \in EventTypes, listener \in Listeners :
          append_listener(event_type, listener)
    \/ \E event_type \in EventTypes, kwargs \in EventKwargs :
          enqueue(event_type, kwargs)
    \/ process
    \/ process_dispatch
    \/ process_join

SpecEventQueue == InitEventQueue /\ [][NextEventQueue]_vars

\* ------------------------------------------------- Monitor, HoareMonitor
\* tools/monitor.py. Every thread of Threads may call the functions wrapped
\* by one monitor object and, on a HoareMonitor, signal() and wait(). The
\* wrapped functions and the threads' own code terminate.

\* (variant: a lock that can be taken while it is held)
Lock_acquire_unguarded(t) ==
    lock' = t

\* threading.Lock.acquire by thread t: blocks while the lock is held
Lock_acquire(t) ==
    /\ lock = 0
    /\ lock' = t

\* (variant: notify, which wakes one waiting thread)
Condition_notify ==
    waiters' = IF waiters = {} THEN {} ELSE waiters \ {CHOOSE w \in waiters : TRUE}

\* threading.Condition.notify_all: wakes every thread inside wait()
Condition_notify_all ==
    waiters' = {}

\* threading.Condition.notify(): wakes one of the threads inside wait(), if any
Condition_notify_one ==
    \/ waiters = {} /\ waiters' = {}
    \/ \E w \in waiters : waiters' = waiters \ {w}

\* thread t calls a function wrapped by the monitor, or the wait method of a
\* HoareMonitor or MesaMonitor (func = "wait"): it arrives at `with self._lock`
wrapper(t, func) ==
    /\ mthreads[t].pc = "idle"
    /\ mcalls < MaxMonitorCalls
    /\ func = "wait" => mclass # "Monitor"
    /\ mthreads' = [mthreads EXCEPT ![t] = [pc |-> "acquire", func |-> func, waited |-> FALSE]]
    /\ mcalls' = mcalls + 1
    /\ UNCHANGED <<core, extras, decorator, eventqueue,
                   mclass, lock, is_condition_met, waiters, signalled>>

\* `with self._lock`: the lock is taken; Monitor.wrapper and
\* MesaMonitor.wrapper go on to the function, HoareMonitor.wrapper and
\* HoareMonitor.wait to the while loop, MesaMonitor.wait to its wait()
wrapper_enter(t) ==
    /\ mthreads[t].pc = "acquire"
    /\ Lock_acquire(t)
    /\ mthreads' = [mthreads EXCEPT ![t].pc =
                        CASE mclass = "HoareMonitor" -> "check"
                          [] mthreads[t].func = "wait" -> "mesa_wait"
                          [] OTHER -> "body"]
    /\ UNCHANGED <<core, extras, decorator, eventqueue,
                   mclass, is_condition_met, waiters, signalled, mcalls>>

\* `while not self._is_condition_met: self._condition.wait()`: wait
\* releases the lock and blocks the thread; when the condition is met the
\* wrapper calls the function, and HoareMonitor.wait leaves the with block
wrapper_check(t) ==
    /\ mthreads[t].pc = "check"
    /\ IF ~is_condition_met
       THEN /\ lock' = 0
            /\ waiters' = waiters \cup {t}
            /\ mthreads' = [mthreads EXCEPT ![t].pc = "wait", ![t].waited = TRUE]
       ELSE IF mthreads[t].func = "wait"
            THEN /\ lock' = 0
                 /\ mthreads' = [mthreads EXCEPT ![t] = Outside]
                 /\ UNCHANGED waiters
            ELSE /\ mthreads' = [mthreads EXCEPT ![t].pc = "body"]
                 /\ UNCHANGED <<lock, waiters>>
    /\ UNCHANGED <<core, extras, decorator, eventqueue,
                   mclass, is_condition_met, signalled, mcalls>>

\* MesaMonitor.wait: self._condition.wait() without a condition to test:
\* wait releases the lock and blocks the thread
MesaMonitor_wait(t) ==
    /\ mthreads[t].pc = "mesa_wait"
    /\ lock' = 0
    /\ waiters' = waiters \cup {t}
    /\ mthreads' = [mthreads EXCEPT ![t].pc = "wait", ![t].waited = TRUE]
    /\ UNCHANGED <<core, extras, decorator, eventqueue,
                   mclass, is_condition_met, signalled, mcalls>>

\* Condition.wait returns: the thread has been notified and takes the lock
\* again; HoareMonitor tests the loop condition again, MesaMonitor.wait is
\* at the end of its with block
Condition_wait_return(t) ==
    /\ mthreads[t].pc = "wait"
    /\ t \notin waiters
    /\ Lock_acquire(t)
    /\ mthreads' = [mthreads EXCEPT ![t].pc =
                        IF mclass = "HoareMonitor" THEN "check" ELSE "leave"]
    /\ UNCHANGED <<core, extras, decorator, eventqueue,
                   mclass, is_condition_met, waiters, signalled, mcalls>>

\* MesaMonitor.wait: the with block releases the lock
MesaMonitor_wait_exit(t) ==
    /\ mthreads[t].pc = "leave"
    /\ lock' = 0
    /\ mthreads' = [mthreads EXCEPT ![t] = Outside]
    /\ UNCHANGED <<core, extras, decorator, eventqueue,
                   mclass, is_condition_met, waiters, signalled, mcalls>>

\* result = func(*args, **kwargs) is over; the with block releases the lock
wrapper_exit(t) ==
    /\ mthreads[t].pc = "body"
    /\ lock' = 0
    /\ mthreads' = [mthreads EXCEPT ![t] = Outside]
    /\ UNCHANGED <<core, extras, decorator, eventqueue,
                   mclass, is_condition_met, waiters, signalled, mcalls>>

\* thread t calls signal of a HoareMonitor or MesaMonitor: it arrives at
\* `with self._lock`
signal(t) ==
    /\ mclass # "Monitor"
    /\ mthreads[t].pc = "idle"
    /\ mcalls < MaxMonitorCalls
    /\ mthreads' = [mthreads EXCEPT ![t] = [pc |-> "signal", func |-> "signal", waited |-> FALSE]]
    /\ mcalls' = mcalls + 1
    /\ UNCHANGED <<core, extras, decorator, eventqueue,
                   mclass, lock, is_condition_met, waiters, signalled>>

\* signal takes the lock
signal_enter(t) ==
    /\ mthreads[t].pc = "signal"
    /\ Lock_acquire(t)
    /\ mthreads' = [mthreads EXCEPT ![t].pc = "notify"]
    /\ UNCHANGED <<core, extras, decorator, eventqueue,
                   mclass, is_condition_met, waiters, signalled, mcalls>>

\* HoareMonitor.signal: self._is_condition_met = True;
\* self._condition.notify_all(). MesaMonitor.signal: self._condition.notify().
\* Then the with block releases the lock
signal_notify(t) ==
    /\ mthreads[t].pc = "notify"
    /\ IF mclass = "HoareMonitor"
       THEN /\ is_condition_met' = TRUE
            /\ Condition_notify_all
       ELSE /\ Condition_notify_one
            /\ UNCHANGED is_condition_met
    /\ signalled' = TRUE
    /\ lock' = 0
    /\ mthreads' = [mthreads EXCEPT ![t] = Outside]
    /\ UNCHANGED <<core, extras, decorator, eventqueue, mclass, mcalls>>

InitMonitor ==
    /\ policy = "Threading"
    /\ exceptions = None
    /\ tracer = "None"
    /\ profile = "None"
    /\ callbacks = {}
    /\ allowed_parameters = {}
    /\ ready = TRUE
    /\ units = <<>>
    /\ pc = "idle"
    /\ idx = 0
    /\ result = Res("init", "ok", None)
    /\ nreq = 0
    /\ accepted = None
    /\ invoked = <<>>
    /\ Reduction_init("Sum", None)
    /\ stack = <<>>
    /\ CallbackHandler_init
    /\ CallPyBack_init
    /\ EventQueue_init
    /\ \E cls \in {"Monitor", "HoareMonitor", "MesaMonitor"} : Monitor_init(cls)
    /\ Extras_init

\* the steps of the call thread t is in
ThreadStep(t) ==
    \/ wrapper_enter(t)
    \/ wrapper_check(t)
    \/ MesaMonitor_wait(t)
    \/ Condition_wait_return(t)
    \/ MesaMonitor_wait_exit(t)
    \/ wrapper_exit(t)
    \/ signal_enter(t)
    \/ signal_notify(t)

NextMonitor ==
    \/ \E t \in Threads, func \in Wrapped \cup {"wait"} : wrapper(t, func)
    \/ \E t \in Threads : signal(t)
    \/ \E t \in Threads : ThreadStep(t)

SpecMonitor == InitMonitor /\ [][NextMonitor]_vars

\* every thread that is inside a call keeps being scheduled: a step of its
\* call that stays possible is eventually taken
SpecMonitorFair ==
    SpecMonitor /\ \A t \in Threads : WF_vars(ThreadStep(t))

\* -------------------------------------------------------- Composition
\* tools/compose.py. Numbers are fractions num/den in lowest terms (x / 2
\* is Python's true division); a composed function is the sequence of the
\* functions it applies, first one first.

\* the fraction n/d in lowest terms, for d a power of two
RECURSIVE Lowest(_, _)
Lowest(n, d) ==
    IF d > 1 /\ n % 2 = 0 THEN Lowest(n \div 2, d \div 2) ELSE Quot(n, d)

\* f(v) for the functions of the example
Apply(f, v) ==
    CASE f = "double" -> Lowest(2 * v.num, v.den)
      [] f = "square" -> Lowest(v.num * v.num, v.den * v.den)
      [] f = "subtract_five" -> Lowest(v.num - 5 * v.den, v.den)
      [] f = "plus_ten" -> Lowest(v.num + 10 * v.den, v.den)
      [] f = "half" -> Lowest(v.num, 2 * v.den)

\* calling a composed function: its functions are applied from the first on
RECURSIVE CallComposed(_, _)
CallComposed(composed, v) ==
    IF composed = <<>> THEN v
    ELSE CallComposed(Tail(composed), Apply(Head(composed), v))

\* compose_two_functions(f, g): wrapper(*args) = g(f(*args))
compose_two_functions(f, g) ==
    f \o g

\* functools.reduce(function, iterable, initial)
RECURSIVE reduce_compose(_, _)
reduce_compose(iterable, acc) ==
    IF iterable = <<>> THEN acc
    ELSE reduce_compose(Tail(iterable),
                        compose_two_functions(acc, << Head(iterable) >>))

\* compose(func, *functions):
\* reduce(partial(compose_two_functions, wrap=False), reversed(functions), func)
compose(fs) ==
    reduce_compose(Reversed(Tail(fs)), << Head(fs) >>)

\* Composition.add_proloque(func): self._funcs = (*self._funcs, func)
add_proloque(func) ==
    /\ proloque = None
    /\ funcs' = Append(funcs, func)
    /\ proloque' = Some(func)
    /\ called' = NotCalled
    /\ UNCHANGED <<core, decorator, eventqueue, monitor, locking, dispatcher,
                   given, epiloque>>

\* Composition.add_epiloque(func): self._funcs = (func, *self._funcs)
add_epiloque(func) ==
    /\ epiloque = None
    /\ funcs' = << func >> \o funcs
    /\ epiloque' = Some(func)
    /\ called' = NotCalled
    /\ UNCHANGED <<core, decorator, eventqueue, monitor, locking, dispatcher,
                   given, proloque>>

\* Composition.__call__(x): compose(*self._funcs)(x); with no function at
\* all compose() has no first argument and raises TypeError
Composition_call(x) ==
    /\ called' = [via |-> "__call__", x |-> x,
                   out |-> IF funcs = <<>> THEN NaN
                           ELSE CallComposed(compose(funcs), Quot(x, 1))]
    /\ UNCHANGED <<core, decorator, eventqueue, monitor, locking, dispatcher,
                   funcs, given, proloque, epiloque>>

\* Composition.composition, the property, and a call of what it returned
Composition_composition(x) ==
    /\ funcs # <<>>
    /\ called' = [via |-> "composition", x |-> x,
                   out |-> CallComposed(compose(funcs), Quot(x, 1))]
    /\ UNCHANGED <<core, decorator, eventqueue, monitor, locking, dispatcher,
                   funcs, given, proloque, epiloque>>

InitCompose ==
    /\ policy = "Threading"
    /\ exceptions = None
    /\ tracer = "None"
    /\ profile = "None"
    /\ callbacks = {}
    /\ allowed_parameters = {}
    /\ ready = TRUE
    /\ units = <<>>
    /\ pc = "idle"
    /\ idx = 0
    /\ result = Res("init", "ok", None)
    /\ nreq = 0
    /\ accepted = None
    /\ invoked = <<>>
    /\ Reduction_init("Sum", None)
    /\ stack = <<>>
    /\ CallbackHandler_init
    /\ CallPyBack_init
    /\ EventQueue_init
    /\ Monitor_init("Monitor")
    /\ \E fs \in Arrangements(ComposedFunctions, MaxFuncs) : Composition_init(fs)
    /\ LockedList_init({})
    /\ EventDispatcher_init

NextCompose ==
    \/ \E func \in ProloqueFunctions : add_proloque(func)
    \/ \E func \in EpiloqueFunctions : add_epiloque(func)
    \/ \E x \in Arguments : Composition_call(x)
    \/ \E x \in Arguments : Composition_composition(x)

SpecCompose == InitCompose /\ [][NextCompose]_vars

\* ------------------------------------------------ the registry lock
\* A CallbackList under ThreadingPolicy with its RLock: the caller thread
\* runs and joins batches, and the callbacks, each in its own thread, call
\* add_callback and remove_callback on the registry that runs them.

\* with self._lock can be entered by thread t: no other thread holds the
\* reentrant lock
RLock_acquire(t) ==
    rl_owner \in {Free, t}

\* CallbackList.add_callback(callback), from the caller thread
CallbackList_add_callback(callback) ==
    /\ rl_caller = "idle"
    /\ RLock_acquire(CallerThread)
    /\ rl_callbacks' = rl_callbacks \cup {callback}
    /\ UNCHANGED <<core, decorator, eventqueue, monitor, composition, dispatcher,
                   rl_owner, rl_ready, rl_threads, rl_caller, rl_nrun>>

\* CallbackList.remove_callback(callback), from the caller thread:
\* set.remove raises KeyError when the callback is not registered
CallbackList_remove_callback(callback) ==
    /\ rl_caller = "idle"
    /\ RLock_acquire(CallerThread)
    /\ rl_callbacks' = rl_callbacks \ {callback}
    /\ UNCHANGED <<core, decorator, eventqueue, monitor, composition, dispatcher,
                   rl_owner, rl_ready, rl_threads, rl_caller, rl_nrun>>

\* CallbackList.run_callbacks(): under the lock, prepare one thread per
\* callback and start them all, or warn when a batch is running
CallbackList_run_callbacks ==
    /\ rl_caller = "idle"
    /\ rl_nrun < MaxBatches
    /\ RLock_acquire(CallerThread)
    /\ rl_nrun' = rl_nrun + 1
    /\ IF rl_ready
          THEN /\ rl_threads' = [c \in LockTargets |->
                                    IF c \in rl_callbacks THEN "started" ELSE "none"]
               /\ rl_ready' = FALSE
          ELSE UNCHANGED <<rl_threads, rl_ready>>
    /\ UNCHANGED <<core, decorator, eventqueue, monitor, composition, dispatcher,
                   rl_owner, rl_callbacks, rl_caller>>

\* CallbackList.join_callbacks(), up to scheduler.join(): the caller takes
\* the lock and, when a batch is running, starts waiting for its threads
\* with the lock held
CallbackList_join_callbacks ==
    /\ rl_caller = "idle"
    /\ ~ rl_ready
    /\ RLock_acquire(CallerThread)
    /\ rl_owner' = CallerThread
    /\ rl_caller' = "joining"
    /\ UNCHANGED <<core, decorator, eventqueue, monitor, composition, dispatcher,
                   rl_ready, rl_callbacks, rl_threads, rl_nrun>>

\* ThreadingPolicy._join returns once every thread has finished; then
\* self._ready = True and the lock is released
CallbackList_join_return ==
    /\ rl_caller = "joining"
    /\ \A c \in LockTargets : rl_threads[c] \in {"none", "finished"}
    /\ rl_ready' = TRUE
    /\ rl_owner' = Free
    /\ rl_caller' = "idle"
    /\ UNCHANGED <<core, decorator, eventqueue, monitor, composition, dispatcher,
                   rl_callbacks, rl_threads, rl_nrun>>

\* ExceptionThread.run: the thread of callback c calls its target; "adder"
\* and "remover" reach the with self._lock of add_callback/remove_callback
Thread_run(c) ==
    /\ rl_threads[c] = "started"
    /\ rl_threads' = [rl_threads EXCEPT ![c] =
                         IF c \in {"adder", "remover"} THEN "want_lock" ELSE "finished"]
    /\ UNCHANGED <<core, decorator, eventqueue, monitor, composition, dispatcher,
                   rl_owner, rl_ready, rl_callbacks, rl_caller, rl_nrun>>

\* the thread of callback c enters with self._lock
Thread_lock(c) ==
    /\ rl_threads[c] = "want_lock"
    /\ RLock_acquire(CallbackThread(c))
    /\ rl_owner' = CallbackThread(c)
    /\ rl_threads' = [rl_threads EXCEPT ![c] = "locked"]
    /\ UNCHANGED <<core, decorator, eventqueue, monitor, composition, dispatcher,
                   rl_ready, rl_callbacks, rl_caller, rl_nrun>>

\* the thread of callback c changes self.callbacks, leaves the with block
\* and returns
Thread_unlock(c) ==
    /\ rl_threads[c] = "locked"
    /\ rl_callbacks' = IF c = "adder" THEN rl_callbacks \cup {ExtraCallback}
                                      ELSE rl_callbacks \ {c}
    /\ rl_owner' = Free
    /\ rl_threads' = [rl_threads EXCEPT ![c] = "finished"]
    /\ UNCHANGED <<core, decorator, eventqueue, monitor, composition, dispatcher,
                   rl_ready, rl_caller, rl_nrun>>

InitLocking ==
    /\ policy = "Threading"
    /\ exceptions = None
    /\ tracer = "None"
    /\ profile = "None"
    /\ callbacks = {}
    /\ allowed_parameters = {}
    /\ ready = TRUE
    /\ units = <<>>
    /\ pc = "idle"
    /\ idx = 0
    /\ result = Res("init", "ok", None)
    /\ nreq = 0
    /\ accepted = None
    /\ invoked = <<>>
    /\ Reduction_init("Sum", None)
    /\ stack = <<>>
    /\ CallbackHandler_init
    /\ CallPyBack_init
    /\ EventQueue_init
    /\ Monitor_init("Monitor")
    /\ Composition_init(<<>>)
    /\ \E cbs \in SUBSET LockCallbacks : LockedList_init(cbs)
    /\ EventDispatcher_init

NextLocking ==
    \/ \E callback \in LockCallbacks : CallbackList_add_callback(callback)
    \/ \E callback \in LockCallbacks : CallbackList_remove_callback(callback)
    \/ CallbackList_run_callbacks
    \/ CallbackList_join_callbacks
    \/ CallbackList_join_return
    \/ \E c \in LockTargets : Thread_run(c)
    \/ \E c \in LockTargets : Thread_lock(c)
    \/ \E c \in LockTargets : Thread_unlock(c)

SpecLocking == InitLocking /\ [][NextLocking]_vars

\* every started thread is scheduled, and a join whose threads have all
\* finished returns
SpecLockingFair ==
    /\ SpecLocking
    /\ WF_vars(CallbackList_join_return)
    /\ \A c \in LockTargets :
          WF_vars(Thread_run(c) \/ Thread_lock(c) \/ Thread_unlock(c))

\* -------------------------------------------------------- EventDispatcher
\* basics/eventdispatcher.py: one registry per event type that ever got a
\* listener, all built with the dispatcher's policy; one thread calls
\* append_listener, remove_listener and dispatch, and the listeners return
\* normally.

\* EventDispatcher.append_listener(event_type, listener)
EventDispatcher_append_listener(event_type, listener) ==
    /\ dispatched.pc = "idle"
    /\ d_listeners' =
          IF event_type \notin DOMAIN d_listeners
          THEN (event_type :> [callbacks |-> {listener}, ready |-> TRUE]) @@ d_listeners
          ELSE [d_listeners EXCEPT ![event_type].callbacks = @ \cup {listener}]
    /\ dispatched' = NotDispatched
    /\ UNCHANGED <<core, decorator, eventqueue, monitor, composition, locking>>

\* EventDispatcher.remove_listener(event_type, listener): nothing for a type
\* without registry, KeyError of set.remove for a listener that is not there
EventDispatcher_remove_listener(event_type, listener) ==
    /\ dispatched.pc = "idle"
    /\ d_listeners' =
          IF event_type \in DOMAIN d_listeners
          THEN [d_listeners EXCEPT ![event_type].callbacks = @ \ {listener}]
          ELSE d_listeners
    /\ dispatched' = NotDispatched
    /\ UNCHANGED <<core, decorator, eventqueue, monitor, composition, locking>>

\* EventDispatcher.dispatch(event_type, **kwargs) up to the return of
\* prepare_callbacks inside run_callbacks, or the whole call for an event
\* type without registry
EventDispatcher_dispatch(event_type, kwargs) ==
    /\ dispatched.pc = "idle"
    /\ IF event_type \in DOMAIN d_listeners
       THEN IF d_listeners[event_type].ready
            THEN /\ dispatched' = [pc |-> "start", type |-> event_type, kwargs |-> kwargs,
                                   found |-> TRUE,
                                   units |-> d_listeners[event_type].callbacks,
                                   counts |-> [l \in Listeners |-> 0]]
                 /\ d_listeners' = IF policy = "Threading"
                                   THEN [d_listeners EXCEPT ![event_type].ready = FALSE]
                                   ELSE d_listeners
            ELSE \* the warning of run_callbacks
                 /\ dispatched' = [pc |-> "join", type |-> event_type, kwargs |-> kwargs,
                                   found |-> TRUE, units |-> {},
                                   counts |-> [l \in Listeners |-> 0]]
                 /\ UNCHANGED d_listeners
       ELSE /\ dispatched' = [NotDispatched EXCEPT !.type = event_type, !.kwargs = kwargs]
            /\ UNCHANGED d_listeners
    /\ UNCHANGED <<core, decorator, eventqueue, monitor, composition, locking>>

\* the dispatch unit of listener l calls it: an iteration of the loop of
\* SinglePolicy._start, or the thread that ThreadingPolicy._start started
EventDispatcher_invoke(l) ==
    /\ dispatched.pc = "start"
    /\ l \in dispatched.units
    /\ dispatched' = [dispatched EXCEPT !.units = @ \ {l}, !.counts[l] = @ + 1]
    /\ UNCHANGED <<core, decorator, eventqueue, monitor, composition, locking, d_listeners>>

\* (variant: dispatch returns after run_callbacks)
EventDispatcher_join_skipped ==
    /\ dispatched.pc \in {"start", "join"}
    /\ dispatched.units = {}
    /\ d_listeners' = [d_listeners EXCEPT ![dispatched.type].ready = FALSE]
    /\ dispatched' = [dispatched EXCEPT !.pc = "idle"]
    /\ UNCHANGED <<core, decorator, eventqueue, monitor, composition, locking>>

\* the rest of dispatch once every unit has finished: run_callbacks has set
\* _ready = False (SinglePolicy: after the loop), join_callbacks finds the
\* registry Running, scheduler.join() returns and _ready = True
EventDispatcher_join ==
    /\ dispatched.pc \in {"start", "join"}
    /\ dispatched.units = {}
    /\ d_listeners' = [d_listeners EXCEPT ![dispatched.type].ready = TRUE]
    /\ dispatched' = [dispatched EXCEPT !.pc = "idle"]
    /\ UNCHANGED <<core, decorator, eventqueue, monitor, composition, locking>>

InitEventDispatcher ==
    /\ policy \in {"Single", "Threading"}
    /\ exceptions = None
    /\ tracer = "None"
    /\ profile = "None"
    /\ callbacks = {}
    /\ allowed_parameters = {}
    /\ ready = TRUE
    /\ units = <<>>
    /\ pc = "idle"
    /\ idx = 0
    /\ result = Res("init", "ok", None)
    /\ nreq = 0
    /\ accepted = None
    /\ invoked = <<>>
    /\ Reduction_init("Sum", None)
    /\ stack = <<>>
    /\ CallbackHandler_init
    /\ Tools_init

NextEventDispatcher ==
    \/ \E event_type \in EventTypes, listener \in Listeners :
          EventDispatcher_append_listener(event_type, listener)
    \/ \E event_type \in EventTypes, listener \in Listeners :
          EventDispatcher_remove_listener(event_type, listener)
    \/ \E event_type \in EventTypes, kwargs \in EventKwargs :
          EventDispatcher_dispatch(event_type, kwargs)
    \/ \E l \in Listeners : EventDispatcher_invoke(l)
    \/ EventDispatcher_join

SpecEventDispatcher == InitEventDispatcher /\ [][NextEventDispatcher]_vars

TypeOK ==
    /\ policy \in {"Single", "Threading"}
    /\ ready \in BOOLEAN
    /\ pc \in {"idle", "start", "join"}
    /\ callbacks \subseteq Candidates
    /\ nreq <= MaxRuns

\* ------------------------------------------------------------- helpers
\* the caller's last registry call was op and it returned, warned or raised
Running == ~ready
LastAccepted == accepted[1]
Returned(op) == pc = "idle" /\ result.op = op /\ result.status = "ok"
Warned(op) == pc = "idle" /\ result.op = op /\ result.status = "warn"
Raised(op) == pc = "idle" /\ result.op = op /\ result.status = "raised"
\* the positions of the log at which callback c was invoked
CallsOf(c) == {i \in 1..Len(invoked) : invoked[i].cb = c}
\* the outcome of the invocation of the i-th unit of the batch, "none" before it
OutcomeOf(i) ==
    IF \E j \in 1..Len(invoked) : invoked[j].cb = units[i].target
    THEN invoked[CHOOSE j \in 1..Len(invoked) : invoked[j].cb = units[i].target].out
    ELSE "none"
AllowListed(kind) == exceptions # None /\ kind \in exceptions[1]

\* ------------------------------------------------------------------ C1
C1_RejectedStep ==
    \A kwds \in KwargsSet :
        (Running /\ run_callbacks(kwds)) =>
            /\ result' = Res("run_callbacks", "warn", None)
            /\ UNCHANGED <<callbacks, ready, units, invoked, accepted, profile, pc, idx>>
C1_NotQueued ==
    /\ \A i \in 1..Len(units) : accepted # None /\ units[i].req = LastAccepted.req
    /\ \A j \in 1..Len(invoked) : accepted # None /\ invoked[j].req = LastAccepted.req
    /\ Warned("run_callbacks") => Running
\* C1: run_callbacks on a Running registry only warns: it does not raise,
\* leaves the callback set, the state, the prepared batch, the hook and the
\* invocation log as they are, and the request is never queued: every dispatch
\* unit and every invocation, also after the following join_callbacks, belongs
\* to the last accepted request and never to a rejected one.
C1_RunWhileRunningIsRejected == [][C1_RejectedStep]_vars /\ []C1_NotQueued

\* a rejected request was followed by a join_callbacks that returned, and the
\* batch of the accepted request ran
C1_Witness ==
    /\ Returned("join_callbacks") /\ ready
    /\ accepted # None /\ nreq > LastAccepted.req
    /\ Len(invoked) = 2

\* ------------------------------------------------------------------ C2
\* C2: join_callbacks on a Ready registry only warns: it does not raise, does
\* not enter the wait of the policy, and leaves the state Ready and the
\* callback set (and everything else) unchanged.
C2_JoinWhileReadyIsNoOp ==
    [][(ready /\ join_callbacks) =>
          /\ result' = Res("join_callbacks", "warn", None)
          /\ pc' = "idle"
          /\ UNCHANGED <<callbacks, ready, units, invoked, accepted, profile, idx>>]_vars

\* a join_callbacks warned on a registry that had been run and joined before
C2_Witness ==
    /\ Warned("join_callbacks") /\ ready /\ pc = "idle"
    /\ accepted # None /\ callbacks # {}

\* ------------------------------------------------------------------ C3
\* C3: every join_callbacks call made on a Running registry (one that did not
\* merely warn) has left the registry Ready when it finishes, by returning or
\* by raising, under every policy.
C3_JoinLeavesReady ==
    (result.op = "join_callbacks" /\ result.status \in {"ok", "raised"} /\ pc = "idle")
        => ready

\* ------------------------------------------------------------------ C4
\* C4: run_callbacks on a Ready registry makes it Running, and when the
\* following join_callbacks has returned, every callback that was in the
\* callback set at the run_callbacks call has been invoked exactly once, no
\* other callback has been invoked, and the registry is Ready again.
C4_RunJoinInvokesEachOnce ==
    /\ Returned("run_callbacks") => Running
    /\ Returned("join_callbacks") =>
          /\ ready
          /\ accepted # None
          /\ \A c \in LastAccepted.cbs : Cardinality(CallsOf(c)) = 1
          /\ \A j \in 1..Len(invoked) :
                invoked[j].cb \in LastAccepted.cbs /\ invoked[j].req = LastAccepted.req

\* a batch of two callbacks, all returning normally, has been run and joined
C4_Witness ==
    /\ Returned("join_callbacks") /\ ready
    /\ accepted # None /\ LastAccepted.cbs = {"fx", "fxy"}
    /\ Len(invoked) = 2
    /\ \A j \in 1..Len(invoked) : invoked[j].out = "ok"

\* ------------------------------------------------------------------ C5
\* C5: every invocation receives exactly the entries of the kwargs of its
\* run_callbacks call whose keys are parameters of the invoked callback: no
\* other key, no supplied parameter missing, each with the value supplied.
C5_KwargsFilteredPerCallback ==
    \A j \in 1..Len(invoked) :
        /\ accepted # None
        /\ DOMAIN invoked[j].kw = DOMAIN LastAccepted.kw \cap parameters(invoked[j].cb)
        /\ \A k \in DOMAIN invoked[j].kw : invoked[j].kw[k] = LastAccepted.kw[k]

\* two callbacks of one batch received different parts of kwargs, one of whose
\* keys ("z") is a parameter of neither
C5_Witness ==
    /\ accepted # None /\ "z" \in DOMAIN LastAccepted.kw
    /\ \E i, j \in 1..Len(invoked) :
          /\ invoked[i].cb = "fx" /\ invoked[j].cb = "fxy"
          /\ invoked[i].kw = ("x" :> 2)
          /\ invoked[j].kw = ("x" :> 2 @@ "y" :> 1)

\* ------------------------------------------------------------------ C6
\* C6: add_callback of a value that is not callable, of an async function, or
\* of a callable with a parameter outside allowed_parameters raises to the
\* caller and leaves the callback set and the Ready/Running state unchanged.
\* the values add_callback must refuse
Invalid(c) ==
    \/ c = "notcallable"
    \/ c = "coro"
    \/ \E n \in parameters(c) : n \notin allowed_parameters
C6_InvalidAddRejected ==
    [][\A c \in Candidates :
          (Invalid(c) /\ add_callback(c)) =>
              /\ result'.op = "add_callback" /\ result'.status = "raised"
              /\ UNCHANGED <<callbacks, ready>>]_vars

\* an add_callback failed validation while a batch was running
C6_Witness ==
    /\ Raised("add_callback") /\ result.exc = Some(Exc("AssertionError", "fz", 0))
    /\ Running /\ callbacks # {}

\* ------------------------------------------------------------------ C7
C7_StoredValid ==
    /\ \A c \in callbacks : parameters(c) \subseteq allowed_parameters
    /\ \A c \in callbacks : c \in Functions
C7_ValidateStep ==
    validate_callbacks =>
        /\ result' = Res("validate_callbacks", "ok", None)
        /\ UNCHANGED <<callbacks, ready, units, invoked, accepted, profile, pc, idx, allowed_parameters>>
\* C7: in every reachable state the parameters of every stored callback are
\* allowed parameters and every stored callback is a callable that is no async
\* function; validate_callbacks therefore returns, changing nothing.
C7_CallbacksStayValid == []C7_StoredValid /\ [][C7_ValidateStep]_vars

\* validate_callbacks returned on a Running registry holding two callbacks
C7_Witness ==
    /\ Returned("validate_callbacks")
    /\ callbacks = {"fx", "fxy"} /\ Running

\* ------------------------------------------------------------------ C8
\* C8: under SinglePolicy no thread is started and the callbacks are invoked
\* one at a time in batch order by the caller inside run_callbacks; once a
\* callback has raised, no later callback of the batch is invoked, the caller
\* has left run_callbacks, and what run_callbacks raised is that exception.
C8_SingleStopsAtFirstRaise ==
    policy = "Single" =>
        /\ pc # "join"
        /\ \A i \in 1..Len(units) : units[i].st = "new"
        /\ Len(invoked) <= Len(units)
        /\ \A j \in 1..Len(invoked) : invoked[j].cb = units[j].target
        /\ \A j \in 1..(Len(invoked) - 1) : invoked[j].out = "ok"
        /\ (Len(invoked) > 0 /\ invoked[Len(invoked)].out # "ok") =>
              /\ pc = "idle"
              /\ result.op = "run_callbacks" =>
                    result = Res("run_callbacks", "raised",
                                 Some(Exc(invoked[Len(invoked)].out,
                                          invoked[Len(invoked)].cb,
                                          invoked[Len(invoked)].req)))

\* the first callback of a batch of two raised: run_callbacks raised it and the
\* second callback was not invoked
C8_Witness ==
    /\ policy = "Single" /\ Raised("run_callbacks")
    /\ Len(units) = 2 /\ Len(invoked) = 1
    /\ invoked[1].out = "X"

\* ------------------------------------------------------------------ C9
\* the step with which the caller leaves join_callbacks under ThreadingPolicy
C9_Finishing == ThreadingPolicy_join_step /\ pc' = "idle"
\* C9 (as stated): under ThreadingPolicy with an allow-list, when a
\* join_callbacks call finishes at a time when every thread of the batch has
\* finished, then for every callback of the batch that raised an exception of
\* an allow-listed kind, join_callbacks raises an exception of that kind.
C9_EveryAllowListedRaised ==
    [][(policy = "Threading" /\ exceptions # None /\ C9_Finishing
          /\ \A i \in 1..Len(units) : units[i].st = "done")
        => \A i \in 1..Len(units) :
              AllowListed(OutcomeOf(i)) =>
                  /\ result'.op = "join_callbacks" /\ result'.status = "raised"
                  /\ result'.exc # None
                  /\ result'.exc[1].kind = OutcomeOf(i)]_vars

\* C9 (amended): under ThreadingPolicy with an allow-list, run_callbacks never
\* raises; join_callbacks returns normally only if every callback of the batch
\* was invoked and none raised an allow-listed exception; and when it raises,
\* it raises the allow-listed exception of the first thread, in batch order,
\* whose callback raised one.
C9_FirstAllowListedRaised ==
    (policy = "Threading" /\ exceptions # None) =>
        /\ ~Raised("run_callbacks")
        /\ Returned("join_callbacks") =>
              \A i \in 1..Len(units) :
                  OutcomeOf(i) # "none" /\ ~AllowListed(OutcomeOf(i))
        /\ Raised("join_callbacks") =>
              \E i \in 1..Len(units) :
                  /\ AllowListed(OutcomeOf(i))
                  /\ result.exc = Some(Exc(OutcomeOf(i), units[i].target, units[i].req))
                  /\ \A k \in 1..(i - 1) :
                        OutcomeOf(k) # "none" /\ ~AllowListed(OutcomeOf(k))

\* join_callbacks raised the allow-listed exception of the second thread, the
\* first thread's callback having raised an exception outside the allow-list
C9_Witness ==
    /\ policy = "Threading" /\ exceptions # None
    /\ Raised("join_callbacks")
    /\ Len(units) = 2
    /\ OutcomeOf(1) = "X" /\ OutcomeOf(2) = "B"
    /\ result.exc = Some(Exc("B", units[2].target, units[2].req))

\* ----------------------------------------------------------------- C10
\* C10: under ThreadingPolicy, when a join_callbacks call made on a Running
\* registry has finished, by returning or by raising, every thread of the
\* batch has finished.
C10_JoinWaitsForAllThreads ==
    (policy = "Threading" /\ (Returned("join_callbacks") \/ Raised("join_callbacks")))
        => \A i \in 1..Len(units) : units[i].st = "done"

\* ----------------------------------------------------------------- C15
\* C15: run_callbacks never waits for callbacks: whenever the caller is inside
\* run_callbacks, no callback of the batch remains that has to finish before
\* run_callbacks returns.
C15_RunNeverWaits ==
    pc = "start" => idx > Len(units)

\* ----------------------------------------------------------------- C16
\* C16: the batch is the callback set as it was at the accepted run_callbacks
\* call: whatever is added or removed afterwards, the dispatch units are
\* exactly one per callback of that set, only callbacks of that set are
\* invoked, and when join_callbacks has returned each of them was invoked.
C16_BatchIsSnapshot ==
    accepted # None =>
        /\ {units[i].target : i \in 1..Len(units)} = LastAccepted.cbs
        /\ Len(units) = Cardinality(LastAccepted.cbs)
        /\ \A j \in 1..Len(invoked) : invoked[j].cb \in LastAccepted.cbs
        /\ Returned("join_callbacks") =>
              {invoked[j].cb : j \in 1..Len(invoked)} = LastAccepted.cbs

\* the second batch ran the callback added during the first batch and not the
\* one removed during the first batch; a callback removed during the second
\* batch was still invoked by it
C16_Witness ==
    /\ Returned("join_callbacks")
    /\ accepted # None /\ LastAccepted.req = 2
    /\ LastAccepted.cbs = {"fx", "fxy"}
    /\ callbacks = {"fx"}
    /\ Len(invoked) = 2

\* ----------------------------------------------------------------- C17
\* C17: with an allow-list configured, whenever Policy.start has left by
\* raising (run_callbacks raised to the caller), the profile hook is removed,
\* whatever the kind of the exception.
C17_HookRemovedWhenStartRaises ==
    (exceptions # None /\ Raised("run_callbacks")) => profile = "None"

\* ----------------------------------------------------------------- C18
\* C18: once Policy.join has been called on a started batch and has finished,
\* by returning or by raising, the profile hook is no longer installed.
C18_HookRemovedAfterJoin ==
    (pc = "idle" /\ result.op = "join_callbacks" /\ result.status \in {"ok", "raised"})
        => profile = "None"

\* ----------------------------------------------------------------- C19
\* C19: Policy.join called when nothing is running - every thread of the last
\* batch has finished and a join call on that batch has already finished - 
\* returns normally, whatever the outcome of the batch.
C19_JoinAgainIsNoOp ==
    [][(/\ pc = "join"
        /\ result.op = "join_callbacks" /\ result.status \in {"ok", "raised"}
        /\ \A i \in 1..Len(units) : units[i].st = "done"
        /\ ThreadingPolicy_join_step /\ pc' = "idle")
       => result' = Res("join_callbacks", "ok", None)]_vars

\* ----------------------------------------------------------------- C20
\* C20: reduce_return with nothing recorded returns math.nan for the Sum,
\* Mean, Max, Min and List reductions, and reduce of an empty list returns
\* math.nan for Mean, Max and Min; neither raises.
C20_EmptyGivesNaN ==
    /\ (reduced.op = "reduce_return" /\ reduced.input = <<>>
           /\ rclass \in {"Sum", "Mean", "Max", "Min", "List"})
         => reduced.out = NaN
    /\ (reduced.op = "reduce" /\ reduced.input = <<>> /\ rclass \in {"Mean", "Max", "Min"})
         => reduced.out = NaN

\* SumReduction.reduce_return was called with nothing recorded although the
\* tracer had seen a return event (of a call that was not traced)
C20_Witness ==
    /\ rclass = "Sum" /\ reduced.op = "reduce_return"
    /\ returnvars = <<>> /\ reduced.out = NaN
    /\ nev > 0

\* ----------------------------------------------------------------- C11
\* C11: a registry under MultiprocessingPolicy exists and runs its batch in
\* processes: constructing the policy does not fail.
C11_MultiprocessingPolicyUsable ==
    result.op = "MultiprocessingPolicy" => (result.status = "ok" /\ pc # "failed")

\* ----------------------------------------------------------------- C12
\* C12: while a batch is in flight (its run_callbacks is still inside
\* Policy.start, or the registry is Running) no run_callbacks call prepares
\* another batch.
C12_OneBatchInFlight ==
    [][(pc = "start" \/ ~ready) => accepted' = accepted]_vars

\* ----------------------------------------------------------------- C13
\* C13: when execute(action) returns normally to a caller, the registry of
\* the action is Ready and no callback of that action is still running.
C13_ExecuteReturnsWhenFinished ==
    [][\A c \in Callers :
         (/\ callers[c].pc # "idle"
          /\ callers'[c].pc = "idle"
          /\ callers'[c].result = Res("execute", "ok", None))
         => /\ delegations'[callers[c].action].ready
            /\ \A i \in 1..Len(pool') :
                 pool'[i].act = callers[c].action => pool'[i].st # "started"]_vars

\* ----------------------------------------------------------------- C14
C14_UndeclaredStep ==
    /\ \A c \in Callers, action \in ActionNames, kwargs \in HandlerKwargs :
         (action \notin DOMAIN delegations /\ execute(c, action, kwargs))
         => /\ callers'[c].pc = "idle"
            /\ callers'[c].result = Res("execute", "raised", Some(Exc("ValueError", action, 0)))
            /\ UNCHANGED <<delegations, threads, pool>>
    /\ \A kwargs \in DelegateKwargs :
         (/\ \E i \in 1..Len(kwargs) : kwargs[i].action \notin DOMAIN delegations
          /\ delegate_function(kwargs))
         => /\ callers'[Owner].result.op = "delegate_function"
            /\ callers'[Owner].result.status = "raised"
            /\ callers'[Owner].result.exc[1].kind = "ValueError"
            /\ DOMAIN delegations' = DOMAIN delegations
            /\ UNCHANGED <<threads, pool>>

\* C14: execute of an undeclared action raises ValueError, invokes nothing
\* and leaves every registry as it was; delegate_function with an undeclared
\* action raises ValueError and declares no action.
C14_UndeclaredActionFails == [][C14_UndeclaredStep]_vars

\* both calls have failed on the undeclared action "b", the delegate_function
\* call after it had bound fx to the declared action "a"
C14_Witness ==
    /\ DOMAIN delegations = {"a"}
    /\ delegations["a"].callbacks = {"fx"}
    /\ callers[Owner].result = Res("delegate_function", "raised", Some(Exc("ValueError", "b", 0)))
    /\ callers[2].result = Res("execute", "raised", Some(Exc("ValueError", "b", 0)))

\* ----------------------------------------------------------------- C21
\* the sum of a list, added up from its end
RECURSIVE C21_Total(_)
C21_Total(values) ==
    IF Len(values) = 0 THEN 0
    ELSE C21_Total(SubSeq(values, 1, Len(values) - 1)) + values[Len(values)]

\* C21: reduce_return of an aggregator with recorded returns is the sum
\* (Sum), the mean (Mean), the maximum (Max) or the minimum (Min) of all the
\* recorded return values, one per recorded name.
C21_ReduceReturnOverAllRecorded ==
    (reduced.op = "reduce_return" /\ reduced.input # <<>>) =>
        LET values == [i \in 1..Len(reduced.input) |-> reduced.input[i].val]
            range == {values[i] : i \in 1..Len(values)}
        IN /\ rclass = "Sum" => reduced.out = Num(C21_Total(values))
           /\ rclass = "Mean" => reduced.out = Quot(C21_Total(values), Len(values))
           /\ rclass = "Max" => /\ reduced.out.kind = "num"
                                /\ reduced.out.val \in range
                                /\ \A v \in range : v <= reduced.out.val
           /\ rclass = "Min" => /\ reduced.out.kind = "num"
                                /\ reduced.out.val \in range
                                /\ \A v \in range : v >= reduced.out.val

\* SumReduction with the returns 1, 2 and 3 of three traced calls gave 6
C21_Witness ==
    /\ rclass = "Sum"
    /\ returnvars = << [name |-> "f", val |-> 1], [name |-> "g", val |-> 2],
                       [name |-> "h", val |-> 3] >>
    /\ reduced.op = "reduce_return"
    /\ reduced.out = Num(6)

\* ----------------------------------------------------------------- C22
\* the values recorded in d under the name key
C22_Recorded(d, key) == {d[i].val : i \in {j \in 1..Len(d) : d[j].name = key}}

C22_Step ==
    \* nothing recorded is ever dropped, and there is one entry per name
    /\ \A i \in 1..Len(returnvars) :
         i <= Len(returnvars') /\ returnvars'[i].name = returnvars[i].name
    /\ \A i \in 1..Len(localvars) :
         i <= Len(localvars') /\ localvars'[i].name = localvars[i].name
    /\ \A i, j \in 1..Len(returnvars') : i # j => returnvars'[i].name # returnvars'[j].name
    /\ \A i, j \in 1..Len(localvars') : i # j => localvars'[i].name # localvars'[j].name
    \* the return of a traced name records the latest value and locals under
    \* that name and leaves the other names alone
    /\ (/\ nev' = nev + 1
        /\ reduced'.input[2] = "return"
        /\ \E i \in 1..Len(call_hook) : call_hook[i] = reduced'.input[1])
       => /\ Len(reduced'.input) = 4
          /\ C22_Recorded(returnvars', reduced'.input[1]) = {reduced'.input[3]}
          /\ C22_Recorded(localvars', reduced'.input[1]) = {reduced'.input[4]}
          /\ \A other \in CallNames \ {reduced'.input[1]} :
               /\ C22_Recorded(returnvars', other) = C22_Recorded(returnvars, other)
               /\ C22_Recorded(localvars', other) = C22_Recorded(localvars, other)
    \* and nothing but a return event changes what is recorded
    /\ (returnvars' # returnvars \/ localvars' # localvars)
         => (nev' = nev + 1 /\ reduced'.input[2] = "return")

\* C22: the aggregator holds one observation per function name; a later
\* return of a traced name replaces that name's return value and locals, the
\* observations of the other names are unchanged, and nothing is dropped.
C22_LatestObservationPerName == [][C22_Step]_vars

\* f and g were called once each and five events were seen, the last one a
\* return of f: f had been recorded before g was, and now holds the latest
\* value and locals, while g's observation is the one recorded at its return
C22_Witness ==
    /\ nev = 5
    /\ call_hook = <<"f", "g">>
    /\ reduced.op = "tracer" /\ reduced.input[1] = "f" /\ reduced.input[2] = "return"
    /\ returnvars = << [name |-> "f", val |-> 2], [name |-> "g", val |-> 1] >>
    /\ localvars = << [name |-> "f", val |-> ("v" :> 2 @@ "w" :> 1)],
                      [name |-> "g", val |-> ("v" :> 1)] >>

\* ----------------------------------------------------------------- C23
\* C23: a function called while its name is outside the trace-name filter
\* adds nothing to the recorded returns and locals; checked on a call event
\* that is directly followed by the return event of the same name, with the
\* filter untouched in between.
C23_UnfilteredCallNotRecorded ==
    [][(/\ reduced.op = "tracer"
        /\ reduced.input[2] = "call"
        /\ trace_call_names # None
        /\ reduced.input[1] \notin trace_call_names[1]
        /\ nev' = nev + 1
        /\ reduced'.input[1] = reduced.input[1]
        /\ reduced'.input[2] = "return")
       => (returnvars' = returnvars /\ localvars' = localvars)]_vars

\* ------------------------------------------- claims about the decorator
\* a call of the decorated function has ended and the thread is back outside
Finished == main_pc = "idle" /\ ncalls > 0
\* the entries of trace that are about the registry of a label
EntriesOf(label) == {i \in 1..Len(trace) : trace[i].arg = label}
\* ... in which the registry started its callbacks
RunsOf(label) == {i \in EntriesOf(label) : trace[i].op = "run"}

\* C24: when a call of the decorated function has finished, every registry
\* the wrapper ran during that call has been joined and is Ready again, so
\* that the next call runs its callbacks again.
C24_RanRegistriesJoined ==
    Finished => \A label \in CALLBACK_LABELS :
                    RunsOf(label) # {} => lists[label].ready

\* C26: when the decorated function returned normally, the wrapper has set
\* the tracer profile, run on_call before the function, called the function
\* once, run on_success with the function's result, not touched on_failure,
\* reset the profile to None, run on_end once with the result and no
\* exception, and returned the function's result.
C26_SuccessfulCall ==
    (Finished /\ frame.behaviour.kind = "return") =>
        /\ Len(trace) = 6
        /\ trace[1] = Ev("set_tracer_profile", "tracer", {}, NoKw)
        /\ trace[2].op = "run" /\ trace[2].arg = "on_call"
        /\ trace[3].op = "func"
        /\ trace[4].op = "run" /\ trace[4].arg = "on_success"
        /\ trace[4].kwds.func_result = frame.behaviour.value
        /\ EntriesOf("on_failure") = {}
        /\ trace[5] = Ev("set_tracer_profile", "None", {}, NoKw)
        /\ trace[6].op = "run" /\ trace[6].arg = "on_end"
        /\ trace[6].kwds.func_result = frame.behaviour.value
        /\ trace[6].kwds.func_exception = "None"
        /\ tracer_profile = "None"
        /\ returned = [kind |-> "return", value |-> frame.behaviour.value]

\* C27: when the decorated function raised an exception of a caught class
\* and no on_end callback is defined, the wrapper has run on_failure exactly
\* once, run neither on_success nor on_end, reset the profile to None, and
\* raised the function's exception to its caller.
C27_UnhandledFailureReraised ==
    (/\ Finished
     /\ frame.behaviour = [kind |-> "raise", value |-> "caught"]
     /\ "on_end" \notin frame.defined) =>
        /\ Cardinality(RunsOf("on_failure")) = 1
        /\ EntriesOf("on_success") = {}
        /\ EntriesOf("on_end") = {}
        /\ tracer_profile = "None"
        /\ returned = [kind |-> "raise", value |-> "caught"]

\* C28: when the decorated function raised an exception of a caught class
\* and an on_end callback is defined, the wrapper has run on_failure exactly
\* once, not run on_success, run on_end exactly once, and returned
\* default_return instead of raising.
C28_HandledFailureReturnsDefault ==
    (/\ Finished
     /\ frame.behaviour = [kind |-> "raise", value |-> "caught"]
     /\ "on_end" \in frame.defined) =>
        /\ Cardinality(RunsOf("on_failure")) = 1
        /\ EntriesOf("on_success") = {}
        /\ Cardinality(RunsOf("on_end")) = 1
        /\ returned = [kind |-> "return", value |-> default_return]

\* ----------------------------------------- claims about the event queue
\* the invocations of the listeners of the n-th event of the queue
DeliveriesOf(n) == {j \in 1..Len(delivered) : delivered[j].event = n}

\* C25: enqueue invokes no listener, and when process returns the queue is
\* empty and every event it found in the queue whose type has listeners has
\* caused exactly one invocation of all listeners of that type with the
\* kwargs of that event.
C25_ProcessDispatchesEveryEvent ==
    [][/\ Len(queue') > Len(queue) => delivered' = delivered
       /\ (eq_pc = "join" /\ eq_pc' = "idle") =>
             /\ queue' = <<>>
             /\ \A n \in 1..Len(processing) :
                   processing[n].type \in DOMAIN listeners' =>
                     /\ Cardinality(DeliveriesOf(n)) = 1
                     /\ \A j \in DeliveriesOf(n) :
                           /\ delivered[j].kwargs = processing[n].kwargs
                           /\ delivered[j].callbacks =
                                 listeners'[processing[n].type].callbacks]_vars

\* ------------------------------------------- claims about the monitors
\* the threads inside the body of a wrapped function
InBody == {t \in Threads : mthreads[t].pc = "body"}
\* thread t is inside a call of a wrapped function and has not reached the
\* function body yet
Blocked(t) ==
    /\ mthreads[t].func \in Wrapped
    /\ mthreads[t].pc \in {"acquire", "check", "wait"}

\* C29: at most one thread at a time is inside the body of a function
\* wrapped by the monitor, whichever wrapped functions the threads call.
C29_OneThreadInBody ==
    Cardinality(InBody) <= 1

\* a thread is inside function_a while another one has called function_b
\* of the same Monitor and is held at the lock
C29_Witness ==
    /\ mclass = "Monitor"
    /\ \E t, u \in Threads :
          /\ mthreads[t] = [pc |-> "body", func |-> "function_a", waited |-> FALSE]
          /\ mthreads[u] = [pc |-> "acquire", func |-> "function_b", waited |-> FALSE]

\* C30: under a HoareMonitor no thread is inside the body of a wrapped
\* function before signal() has been called, and once signal() has been
\* called every call that has not reached the body yet eventually runs it.
C30_BodyOnlyAfterSignal ==
    /\ [](mclass = "HoareMonitor" /\ InBody # {} => signalled)
    /\ \A t \in Threads :
          (mclass = "HoareMonitor" /\ signalled /\ Blocked(t))
              ~> (mthreads[t].pc = "body")

\* a call that was blocked in wait() before the signal runs its body
C30_Witness ==
    /\ mclass = "HoareMonitor"
    /\ signalled
    /\ \E t \in Threads : mthreads[t].pc = "body" /\ mthreads[t].waited

\* C31: under a MesaMonitor no thread is inside the body of a wrapped
\* function before signal() has been called.
C31_MesaBodyOnlyAfterSignal ==
    (mclass = "MesaMonitor" /\ InBody # {}) => signalled

\* ------------------------------------------ claims about the composition
\* the functions in the order the claim gives: the prologue, then the
\* functions of the constructor in the order given, then the epilogue
ClaimedOrder == << proloque[1] >> \o given \o << epiloque[1] >>

\* C32: a call of a composition built from f1, ..., fn with a prologue p and
\* an epilogue e, directly or through the composition property, returns
\* e(fn(...f1(p(x)))).
C32_ProloqueFirstEpiloqueLast ==
    (proloque # None /\ epiloque # None /\ called.via # "none") =>
        called.out = CallComposed(ClaimedOrder, Quot(called.x, 1))

\* ---------------------------------------- claims about the registry lock
\* C33: a join_callbacks in progress returns, and every add_callback or
\* remove_callback that a callback of the batch has called completes.
C33_JoinReturns ==
    /\ (rl_caller = "joining") ~> (rl_caller = "idle")
    /\ \A c \in LockTargets :
          (rl_threads[c] = "want_lock") ~> (rl_threads[c] = "finished")

\* --------------------------------- claims about registries sharing a policy
\* C34: whenever a caller is inside the join_callbacks of an action's
\* registry, the threads it waits for are threads of that registry's batch,
\* and every running thread of that registry is among them, whatever the
\* other registries of the handler have run in between.
C34_JoinWaitsForOwnBatch ==
    \A c \in Callers :
        callers[c].pc = "joining" =>
            /\ \A j \in 1..Len(callers[c].list) :
                  pool[callers[c].list[j]].act = callers[c].action
            /\ \A i \in 1..Len(pool) :
                  (pool[i].act = callers[c].action /\ pool[i].st = "started") =>
                      \E j \in 1..Len(callers[c].list) : callers[c].list[j] = i

\* ------------------------------------------ claims about the registry state
\* every callback of the current batch has terminated, normally or by raising
AllTerminated ==
    /\ pc # "start"
    /\ \A i \in 1..Len(units) : units[i].st # "started"

\* C35: from every state in which the registry is Running and all callbacks
\* of the batch have terminated, a caller that keeps calling join_callbacks
\* eventually finds the registry Ready.
C35_JoinBringsBackReady ==
    (~ready /\ AllTerminated) ~> ready

\* C36: whenever run_callbacks has raised under SinglePolicy, the registry
\* is Ready with the callback set of the accepted call, and from there
\* run_callbacks is accepted and join_callbacks only warns.
C36_SingleRaiseLeavesReady ==
    (policy = "Single" /\ Raised("run_callbacks")) =>
        /\ ready
        /\ callbacks = LastAccepted.cbs
        /\ run_accepts
        /\ ~join_accepts

\* C37: under ThreadingPolicy every thread of the accepted batch has been
\* started, and a thread that has not called its callback yet can call it
\* whatever the other callbacks of the batch have done.
C37_EveryThreadRuns ==
    (policy = "Threading" /\ accepted # None) =>
        \A i \in 1..Len(units) :
            /\ units[i].st \in {"started", "done"}
            /\ units[i].st = "started" => ENABLED ExceptionThread_run(i)

\* a callback of the batch was invoked, and raised an allow-listed
\* exception, after another callback of the batch had raised an exception
\* outside the allow-list
C37_Witness ==
    /\ policy = "Threading"
    /\ exceptions # None
    /\ Len(units) = 2
    /\ Len(invoked) = 2
    /\ ~AllowListed(invoked[1].out) /\ invoked[1].out # "ok"
    /\ AllowListed(invoked[2].out)
    /\ \A i \in 1..2 : units[i].st = "done"

\* ------------------------------------------ claims about redeclared actions
C38_RedeclareStep ==
    /\ \A action \in DOMAIN delegations :
          add_delegation(action) =>
              /\ delegations'[action] = [callbacks |-> {}, ready |-> TRUE]
              /\ DOMAIN delegations' = DOMAIN delegations
              /\ \A other \in DOMAIN delegations \ {action} :
                    delegations'[other] = delegations[other]
    /\ \A i \in (Len(pool) + 1)..Len(pool') :
          /\ pool'[i].act \in DOMAIN delegations
          /\ pool'[i].target \in delegations[pool'[i].act].callbacks

\* C38: add_delegation of a declared action leaves that action with an empty
\* Ready registry and every other action's registry as it was, and an execute
\* invokes only callbacks that the action's current registry holds.
C38_RedeclaredActionIsEmpty == [][C38_RedeclareStep]_vars

\* an execute of "a" invoked a callback, then "a" was declared again, and the
\* next execute of "a" has started no dispatch unit
C38_Witness ==
    /\ DOMAIN delegations = {"a"}
    /\ delegations["a"].callbacks = {}
    /\ Len(pool) = 1
    /\ threads = <<>>
    /\ nexec = 2
    /\ \E c \in Callers : callers[c].pc = "join" /\ callers[c].action = "a"

\* ---------------------------------------- claims about the EventDispatcher
\* C39: when a dispatch call has returned, every listener registered for the
\* event type was invoked exactly once and no other listener was invoked,
\* the registry of the type is Ready, and for an event type that never had a
\* listener nothing was invoked and no registry exists.
C39_DispatchInvokesListenersOnce ==
    (dispatched.pc = "idle" /\ dispatched.type # "") =>
        IF dispatched.type \in DOMAIN d_listeners
        THEN /\ dispatched.found
             /\ \A l \in Listeners :
                   dispatched.counts[l] =
                       IF l \in d_listeners[dispatched.type].callbacks THEN 1 ELSE 0
             /\ d_listeners[dispatched.type].ready
        ELSE /\ ~dispatched.found
             /\ \A l \in Listeners : dispatched.counts[l] = 0

\* a dispatch of "event_1" has invoked its listener l1 and not l2, which
\* listens to "event_2" only
C39_Witness ==
    /\ dispatched.pc = "idle"
    /\ dispatched.type = "event_1"
    /\ dispatched.counts = [l \in Listeners |-> IF l = "l1" THEN 1 ELSE 0]
    /\ DOMAIN d_listeners = EventTypes
    /\ d_listeners["event_1"].callbacks = {"l1"}
    /\ d_listeners["event_2"].callbacks = {"l2"}

C40_Step ==
    /\ (ready /\ ~ready') =>
          \/ \E kwds \in KwargsSet : run_callbacks(kwds)
          \/ SinglePolicy_start_step
    /\ (~ready /\ ready') =>
          \/ join_callbacks
          \/ ThreadingPolicy_join_step
    /\ (callbacks' # callbacks) =>
          \/ \E c \in Candidates : add_callback(c)
          \/ \E c \in Functions : remove_callback(c)
    /\ allowed_parameters' = allowed_parameters

\* C40: the registry goes from Ready to Running only in run_callbacks and
\* from Running to Ready only in join_callbacks, its callback set changes
\* only in add_callback and remove_callback, and its allowed_parameters
\* never change.
C40_StateAndSetChangeApart == [][C40_Step]_vars

\* the callbacks of the running batch were all removed while it was running,
\* and the registry is still Running
C40_Witness ==
    /\ Returned("remove_callback")
    /\ ~ready
    /\ callbacks = {}
    /\ accepted # None
    /\ LastAccepted.cbs # {}
====
